---------------------------- MODULE Spec2Model ----------------------------
(***************************************************************************)
(* A model of the API documentation pipeline: the response parser, the     *)
(* batch orchestrator (processRootUrl / processApiEndpoints) and the two   *)
(* prerequisite linkers (util/ai.ts and stages/3-linking).                 *)
(*                                                                         *)
(* Strings are modelled as sequences of words over a fixed vocabulary.     *)
(* A Text is [up |-> BOOLEAN, words |-> sequence of words]: `up' says the  *)
(* text is written in capitals, so that toLowerCase() and the              *)
(* case-sensitive String.includes() are not the identity.  The substring   *)
(* relation between vocabulary words is the table PrefixPairs.             *)
(***************************************************************************)
EXTENDS Integers, Sequences, FiniteSets, TLC

VARIABLES
    \* ---- prerequisite linker (linkActionPrerequisites run twice) ----
    impl,        \* which linker: "util" (util/ai.ts) or "stage3" (stages/3-linking)
    input,       \* the Action collection handed to the current pass
    linked,      \* linkedActions, the working copy the pass mutates
    li,          \* index of the Action the outer loop is at
    lk,          \* index of the prerequisite entry the inner loop is at
    lpc,         \* "idle" | "run" | "done" | "threw"
    pass,        \* 1 or 2
    first,       \* the value returned by pass 1
    orig         \* the collection pass 1 was called with

linkVars == <<impl, input, linked, li, lk, lpc, pass, first, orig>>

VARIABLES
    \* ---- response parser (one parseAiResponse call) ----
    presp,       \* the model's response text, as [mode, syntax, elems]
    ppc,         \* "idle" | "done"
    pout         \* what the call produced: [kind, actions]

parseVars == <<presp, ppc, pout>>

\* processRootUrl and processApiEndpoints: the site, the position of each, the
\* endpoint URLs, the first index of the current batch, each URL's promise, the
\* value it resolved to, the model calls made for it, the collected results, the
\* returned payload, and whether a URL settled before an earlier one of its batch
VARIABLES site, rpc, endpoints, spc, bi, ust, slot, calls, results, payload, overtaken

pipeVars == <<site, rpc, endpoints, spc, bi, ust, slot, calls, results, payload, overtaken>>

\* one call of a linker on the results of stage 2: the entry point, what the
\* model does when asked for a match, the caller's results, the collection
\* handed to linkActionPrerequisites, what the call returned, and its position
VARIABLES entry, sai, sres, shand, sout, s3pc

callVars == <<entry, sai, sres, shand, sout, s3pc>>

\* discovery and the streaming workflow (createPuppeteerWorkflow): the entry
\* point, the site, the progress callback, the position, the loop index, the
\* subsection links the root scrape returned, the pages fetched by discovery,
\* the endpoint URLs, the outcomes of the processed URLs, the progress updates
\* emitted, how many of them wait in a timer, whether an error left a timer
\* callback uncaught, and the returned value
VARIABLES fvariant, fsite, cb, fpc, fi, fsubs, fetched, fends, fproc, emitted, pending,
          escaped, fret, failed

flowVars == <<fvariant, fsite, cb, fpc, fi, fsubs, fetched, fends, fproc, emitted, pending,
              escaped, fret, failed>>

\* a page text under classification: the function applied, the text, a text
\* appended to it and whether the two join without white space, the answers
VARIABLES tfun, txt, suffix, glued, tout, tjoined, tpc

textVars == <<tfun, txt, suffix, glued, tout, tjoined, tpc>>

\* the browser client and the application's server: the key fields of the
\* page, the requests to /api/ routes under way, the keys handlers have read
VARIABLES apiKey, additionalApiKey, wire, serverKeys

keyVars == <<apiKey, additionalApiKey, wire, serverKeys>>

\* the streaming endpoint (process-with-puppeteer-stream): the activeTasks
\* entry of the URL, the task objects created so far, the workflow run of each
\* task, the setTimeout(0) queue of safeCallback, the tasks whose cleanup timer
\* is armed, the SSE responses (live: the response overrode task.sendUpdate),
\* and the status of the last POST
VARIABLES active, task, wf, timers, cleanup, stream, posted

streamVars == <<active, task, wf, timers, cleanup, stream, posted>>

vars == <<linkVars, parseVars, pipeVars, callVars, flowVars, textVars, keyVars, streamVars>>

-----------------------------------------------------------------------------
(***************************************************************************)
(* Bounds                                                                  *)
(***************************************************************************)
MaxActions == 3
MaxElems == 3
NumUrls == 6
MaxSubs == 2
MaxResults == 2

-----------------------------------------------------------------------------
(***************************************************************************)
(* Words and texts                                                         *)
(***************************************************************************)
WordLen(w) ==
    CASE w = "sms" -> 3
      [] w \in {"send", "must", "have", "post"} -> 4
      [] w = "email" -> 5
      [] w \in {"create", "sender", "domain"} -> 6
      [] w = "senders" -> 7
      [] w = "register" -> 8
      [] w = "signature" -> 9
      [] OTHER -> 12

\* <<a, b>>: a is a proper prefix of b (the only proper-substring pairs of the
\* vocabulary)
PrefixPairs == { <<"send", "sender">>, <<"send", "senders">>, <<"sender", "senders">> }

PrefixOf(a, b) == a = b \/ <<a, b>> \in PrefixPairs

SuffixOf(a, b) == a = b

\* String.prototype.includes for a single word inside a single word
SubWord(a, b) == a = b \/ <<a, b>> \in PrefixPairs

Txt(u, ws) == [up |-> u, words |-> ws]

\* String.prototype.toLowerCase
ToLowerCase(t) == [t EXCEPT !.up = FALSE]

\* String.prototype.length of words joined by single spaces
RECURSIVE SumLen(_)
SumLen(ws) == IF ws = <<>> THEN 0 ELSE WordLen(Head(ws)) + SumLen(Tail(ws))

StrLength(t) == IF t.words = <<>> THEN 0 ELSE SumLen(t.words) + Len(t.words) - 1

\* hay.includes(needle) for two texts of the same case
SeqIncludes(hay, needle) ==
    LET n == Len(needle) IN
    IF n = 0 THEN TRUE
    ELSE IF n = 1 THEN \E j \in 1..Len(hay) : SubWord(needle[1], hay[j])
    ELSE \E j \in 1..(Len(hay) - n + 1) :
            /\ SuffixOf(needle[1], hay[j])
            /\ PrefixOf(needle[n], hay[j + n - 1])
            /\ \A m \in 2..(n - 1) : needle[m] = hay[j + m - 1]

\* case-sensitive includes
TextIncludes(hay, needle) ==
    needle.words = <<>> \/ (hay.up = needle.up /\ SeqIncludes(hay.words, needle.words))

\* a word occurs (as a substring) in a set of words
InWords(w, S) == \E t \in S : SubWord(w, t)

Range(s) == { s[i] : i \in 1..Len(s) }

RECURSIVE SelectIdx(_, _, _)
\* the indexes i of s, in order, for which keep[i]
SelectIdx(s, keep, i) ==
    IF i > Len(s) THEN <<>>
    ELSE IF keep[i] THEN <<i>> \o SelectIdx(s, keep, i + 1)
    ELSE SelectIdx(s, keep, i + 1)


-----------------------------------------------------------------------------
(***************************************************************************)
(* Actions (ProcessedApiData) and prerequisite values                      *)
(***************************************************************************)
NoText == Txt(FALSE, <<>>)

\* a prerequisite still holding free text
PText(t) == [ref |-> FALSE, text |-> t, id |-> "", action_name |-> NoText]

\* a PrerequisiteReference {id, description, action_name}
PRef(target, t) ==
    [ref |-> TRUE, text |-> t, id |-> target.id, action_name |-> target.step_name]

Prereq(k, v) == [key |-> k, val |-> v]

\* Has(a, f): the JSON object a carries property f ("api_config.url" is written
\* "url"); an absent property reads as undefined
Has(a, f) == f \in a.present

\* the property names JSON.stringify writes for an Action
JsonKeys(a) ==
    (a.present \ {"url"}) \cup {"prerequisites"}
        \cup (IF Has(a, "api_config") THEN {"url", "method"} ELSE {})

PrereqJsonWords(p) ==
    {p.key} \cup Range(p.val.text.words)
        \cup (IF p.val.ref
              THEN {"id", "description", "action_name", p.val.id}
                       \cup Range(p.val.action_name.words)
              ELSE {})

\* the words of JSON.stringify(action).toLowerCase()
JsonWords(a) ==
    JsonKeys(a) \cup {a.id} \cup Range(a.step_name.words) \cup Range(a.action.words)
        \cup (IF Has(a, "inputs") THEN a.inputs ELSE {})
        \cup UNION { PrereqJsonWords(a.prerequisites[i]) : i \in 1..Len(a.prerequisites) }
        \cup Range(a.url.words) \cup {a.method}

-----------------------------------------------------------------------------
(***************************************************************************)
(* Template rejection and field validation                                 *)
(***************************************************************************)
placeholderTexts ==
    << Txt(TRUE, <<"replace", "with">>), Txt(TRUE, <<"actual", "api">>),
       Txt(TRUE, <<"replace", "this">>), Txt(TRUE, <<"example">>),
       Txt(TRUE, <<"placeholder">>) >>

HasPlaceholder(t) == \E i \in 1..Len(placeholderTexts) : TextIncludes(t, placeholderTexts[i])

\* isTemplateResponse without the check of api_config.url
isTemplateResponseNoUrl(a) ==
    IF ~Has(a, "step_name") THEN "throw"
    ELSE IF ~Has(a, "action")
         THEN (IF TextIncludes(a.step_name, placeholderTexts[1]) THEN "yes" ELSE "throw")
    ELSE IF HasPlaceholder(a.step_name) \/ HasPlaceholder(a.action) THEN "yes"
    ELSE IF ~Has(a, "api_config") \/ ~Has(a, "url") THEN "throw"
    ELSE "no"

\* isTemplateResponse: "yes", "no", or "throw" when .includes is called on an
\* absent (undefined) property
isTemplateResponse(a) ==
    IF ~Has(a, "step_name") THEN "throw"
    ELSE IF ~Has(a, "action")
         THEN (IF TextIncludes(a.step_name, placeholderTexts[1]) THEN "yes" ELSE "throw")
    ELSE IF HasPlaceholder(a.step_name) \/ HasPlaceholder(a.action) THEN "yes"
    ELSE IF ~Has(a, "api_config") \/ ~Has(a, "url") THEN "throw"
    ELSE IF HasPlaceholder(a.url) THEN "yes"
    ELSE "no"

\* !action.id || !action.step_name || !action.action || !action.api_config ||
\* !action.api_config.url
MissingRequired(a) ==
    \/ ~Has(a, "id") \/ a.id = ""
    \/ ~Has(a, "step_name") \/ a.step_name.words = <<>>
    \/ ~Has(a, "action") \/ a.action.words = <<>>
    \/ ~Has(a, "api_config")
    \/ ~Has(a, "url") \/ a.url.words = <<>>

\* the filter callback of validateAndCleanActions
KeepAction(a) == isTemplateResponse(a) = "no" /\ ~MissingRequired(a)

\* validateAndCleanActions: [threw, actions]
validateAndCleanActions(as) ==
    LET idx == SelectIdx(as, [i \in 1..Len(as) |-> KeepAction(as[i])], 1)
    IN  [threw |-> \E i \in 1..Len(as) : isTemplateResponse(as[i]) = "throw",
         actions |-> [j \in 1..Len(idx) |-> as[idx[j]]]]

-----------------------------------------------------------------------------
(***************************************************************************)
(* Heuristic scoring, util/ai.ts                                           *)
(***************************************************************************)
MinScore == 5
MinPrereqLength == 10

utilStopWords ==
    {"must", "have", "need", "required", "should", "with", "your", "this", "that",
     "these", "those", "will", "been", "being", "from", "they", "them", "their",
     "there", "here", "where", "when", "what", "which", "who", "whom", "whose", "how"}

domainTerms ==
    { [term |-> "register", related |-> {"account", "user", "signup", "create"}],
      [term |-> "authenticate", related |-> {"login", "token", "key", "credential"}],
      [term |-> "verify", related |-> {"confirm", "validate", "check"}],
      [term |-> "permission", related |-> {"access", "right", "authorize"}],
      [term |-> "setup", related |-> {"configure", "setting", "initialize"}] }

\* the positions of the prerequisite's words that survive the filter
UtilWordIdx(t) ==
    { i \in 1..Len(t.words) : WordLen(t.words[i]) > 3 /\ t.words[i] \notin utilStopWords }

NameScore(a, t) ==
    LET lowerActionName == ToLowerCase(a.step_name)
        lowerPrereq == ToLowerCase(t)
    IN  IF lowerActionName = lowerPrereq THEN 10
        ELSE IF TextIncludes(lowerActionName, lowerPrereq)
                  \/ TextIncludes(lowerPrereq, lowerActionName) THEN 5
        ELSE 0

MatchBonus(matching, total) ==
    IF total = 0 THEN 0
    ELSE IF 10 * matching > 7 * total THEN 3
    ELSE IF 2 * matching > total THEN 2
    ELSE 0

UtilScore(a, t) ==
    LET W == UtilWordIdx(t)
        inInputs == { i \in W : InWords(t.words[i], a.inputs) }
        inJson == { i \in W : InWords(t.words[i], JsonWords(a)) }
        dom == { d \in domainTerms :
                    /\ InWords(d.term, Range(t.words))
                    /\ \E r \in d.related : InWords(r, JsonWords(a)) }
    IN  NameScore(a, t) + 2 * Cardinality(inInputs) + Cardinality(inJson)
            + MatchBonus(Cardinality(inJson), Cardinality(W)) + 2 * Cardinality(dom)

\* scoredActions.sort((a, b) => b.score - a.score)[0] : the first of the highest
FirstMax(score) ==
    CHOOSE i \in DOMAIN score :
        /\ \A j \in DOMAIN score : score[j] <= score[i]
        /\ \A j \in DOMAIN score : j < i => score[j] < score[i]

\* The result of a lookup: [kind |-> "none"], [kind |-> "throw"] or
\* [kind |-> "found", idx |-> position in the collection]
None == [kind |-> "none", idx |-> 0]
Throw == [kind |-> "throw", idx |-> 0]
Found(i) == [kind |-> "found", idx |-> i]

\* every position of the collection, the current Action's own included
EveryIdx(as, currentActionId) == [i \in 1..Len(as) |-> i]

\* positions of the collection other than the current Action's id
OtherIdx(as, currentActionId) ==
    SelectIdx(as, [i \in 1..Len(as) |-> as[i].id # currentActionId], 1)

\* findMostRelevantActionHeuristic of util/ai.ts
utilHeuristic(t, as, currentActionId) ==
    LET others == OtherIdx(as, currentActionId)
        score == [j \in 1..Len(others) |-> UtilScore(as[others[j]], t)]
    IN  IF others = <<>> THEN None
        ELSE IF \E j \in 1..Len(others) : ~Has(as[others[j]], "inputs") THEN Throw
        ELSE IF score[FirstMax(score)] >= MinScore THEN Found(others[FirstMax(score)])
        ELSE None

-----------------------------------------------------------------------------
(***************************************************************************)
(* Heuristic scoring, stages/3-linking                                     *)
(***************************************************************************)
stage3StopWords ==
    {"must", "have", "need", "requires", "required", "should", "with", "that", "this",
     "from", "your"}

Stage3TermIdx(t) ==
    { i \in 1..Len(t.words) : WordLen(t.words[i]) > 3 /\ t.words[i] \notin stage3StopWords }

ActionTextWords(a) ==
    Range(a.step_name.words) \cup Range(a.action.words) \cup a.inputs
        \cup Range(a.url.words) \cup {a.method}

\* action.action.includes(w), case-sensitive, for a lower-case literal w
ActionHas(a, w) == ~a.action.up /\ InWords(w, Range(a.action.words))

Stage3Score(a, t) ==
    LET K == Stage3TermIdx(t)
        hit == { i \in K : InWords(t.words[i], ActionTextWords(a)) }
        strong == { i \in hit : InWords(t.words[i], Range(a.step_name.words))
                                  \/ InWords(t.words[i], Range(a.action.words)) }
        pw == Range(t.words)
        reg == /\ \/ InWords("register", pw) \/ InWords("create", pw)
                  \/ InWords("setup", pw) \/ SeqIncludes(t.words, <<"set", "up">>)
               /\ ActionHas(a, "create") \/ ActionHas(a, "register") \/ ActionHas(a, "setup")
        ver == /\ InWords("verify", pw) \/ InWords("confirm", pw) \/ InWords("validate", pw)
               /\ ActionHas(a, "verify") \/ ActionHas(a, "confirm") \/ ActionHas(a, "validate")
    IN  Cardinality(hit) + 2 * Cardinality(strong)
            + (IF reg THEN 3 ELSE 0) + (IF ver THEN 3 ELSE 0)

\* findRelevantActionWithAI of stages/3-linking without an API key: the
\* heuristic over the other Actions
stage3Heuristic(t, as, currentActionId) ==
    LET others == OtherIdx(as, currentActionId)
        score == [j \in 1..Len(others) |-> Stage3Score(as[others[j]], t)]
    IN  IF others = <<>> THEN None
        ELSE IF \E j \in 1..Len(others) : ~Has(as[others[j]], "inputs") THEN Throw
        ELSE IF score[FirstMax(score)] > 0 THEN Found(others[FirstMax(score)])
        ELSE None

-----------------------------------------------------------------------------
(***************************************************************************)
(* linkActionPrerequisites, no model credential                            *)
(***************************************************************************)
RECURSIVE NextPos(_, _, _)
\* the first prerequisite entry at or after entry k of Action i, in loop order;
\* <<Len(as) + 1, 1>> when the loops are over
NextPos(as, i, k) ==
    IF i > Len(as) THEN <<Len(as) + 1, 1>>
    ELSE IF k <= Len(as[i].prerequisites) THEN <<i, k>>
    ELSE NextPos(as, i + 1, 1)

\* the lookup one prerequisite text gets without a credential
FindRelevant(which, t, as, currentActionId) ==
    IF which = "util" THEN utilHeuristic(t, as, currentActionId)
    ELSE stage3Heuristic(t, as, currentActionId)

TooShortOffByOne(which, t) == which = "util" /\ StrLength(t) <= MinPrereqLength

\* the prerequisite is too short to be looked up (util/ai.ts only)
TooShort(which, t) == which = "util" /\ StrLength(t) < MinPrereqLength

\* action.prerequisites[key] = {id, description, action_name}
SetRef(as, i, k, target) ==
    [as EXCEPT ![i].prerequisites[k].val = PRef(target, as[i].prerequisites[k].val.text)]

\* the body of the inner loop for entry k of Action i: [threw, actions]
LinkEntry(which, as, i, k) ==
    LET v == as[i].prerequisites[k].val
        r == FindRelevant(which, v.text, as, as[i].id)
    IN  IF v.ref \/ TooShort(which, v.text) THEN [threw |-> FALSE, actions |-> as]
        ELSE IF r.kind = "found"
             THEN [threw |-> FALSE, actions |-> SetRef(as, i, k, as[r.idx])]
        ELSE IF r.kind = "throw" /\ which = "stage3" THEN [threw |-> TRUE, actions |-> as]
        ELSE [threw |-> FALSE, actions |-> as]

\* what the call does before its first lookup: the early returns of util/ai.ts,
\* the validation filter and the deep copy
LinkStart ==
    /\ lpc = "idle"
    /\ LET v == validateAndCleanActions(input)
           copy == IF impl = "util" THEN v.actions ELSE input
           pos == NextPos(copy, 1, 1)
       IN  IF impl = "util" /\ Len(input) <= 1
           THEN /\ linked' = input /\ lpc' = "done" /\ UNCHANGED <<li, lk>>
           ELSE IF impl = "util" /\ v.threw
           THEN /\ lpc' = "threw" /\ UNCHANGED <<linked, li, lk>>
           ELSE IF impl = "util" /\ v.actions = <<>>
           THEN /\ linked' = input /\ lpc' = "done" /\ UNCHANGED <<li, lk>>
           ELSE /\ linked' = copy
                /\ li' = pos[1] /\ lk' = pos[2]
                /\ lpc' = IF pos[1] > Len(copy) THEN "done" ELSE "run"
    /\ first' = IF pass = 1 /\ lpc' = "done" THEN linked' ELSE first
    /\ UNCHANGED <<impl, input, pass, orig>>

\* one iteration of the inner loop (one awaited lookup)
LinkStep ==
    /\ lpc = "run"
    /\ LET r == LinkEntry(impl, linked, li, lk)
           pos == NextPos(r.actions, li, lk + 1)
       IN  IF r.threw
           THEN /\ lpc' = "threw" /\ UNCHANGED <<linked, li, lk>>
           ELSE /\ linked' = r.actions
                /\ li' = pos[1] /\ lk' = pos[2]
                /\ lpc' = IF pos[1] > Len(linked) THEN "done" ELSE "run"
    /\ first' = IF pass = 1 /\ lpc' = "done" THEN linked' ELSE first
    /\ UNCHANGED <<impl, input, pass, orig>>

\* the caller hands the returned collection to the linker again
LinkAgain ==
    /\ lpc = "done" /\ pass = 1
    /\ input' = linked
    /\ pass' = 2
    /\ lpc' = "idle"
    /\ UNCHANGED <<impl, linked, li, lk, first, orig>>

-----------------------------------------------------------------------------
(***************************************************************************)
(* The Action collections the linker is run on                             *)
(***************************************************************************)
AllFields == {"id", "step_name", "action", "inputs", "api_config", "url"}

Act(id, step, action, inputs, url, present) ==
    [id |-> id, step_name |-> step, action |-> action, inputs |-> inputs,
     url |-> url, method |-> "post", present |-> present, prerequisites |-> <<>>]

Catalogue ==
    << Act("a1", Txt(FALSE, <<"create", "sender", "signature">>),
           Txt(FALSE, <<"create", "sender", "signature">>), {"domain"},
           Txt(FALSE, <<"senders">>), AllFields),
       Act("a2", Txt(FALSE, <<"send", "email">>),
           Txt(FALSE, <<"send", "email">>), {"email"},
           Txt(FALSE, <<"email">>), AllFields),
       Act("a3", Txt(TRUE, <<"send", "sms">>),
           Txt(FALSE, <<"send", "sms">>), {},
           Txt(FALSE, <<"sms">>), AllFields),
       Act("a4", Txt(FALSE, <<"create", "sender", "signature", "domain">>),
           Txt(FALSE, <<"register", "domain">>), {"create", "sender", "signature"},
           Txt(FALSE, <<"domain">>), AllFields),
       Act("a5", Txt(FALSE, <<"email", "sender">>),
           Txt(FALSE, <<"email", "sender">>), {},
           Txt(FALSE, <<"senders">>), AllFields \ {"inputs"}) >>

\* the prerequisites an Action of the collection may carry
PrereqOptions ==
    { <<>>,
      << Prereq("req", PText(Catalogue[2].step_name)) >>,
      << Prereq("req", PText(Catalogue[3].step_name)) >>,
      << Prereq("req", PText(Txt(FALSE, <<"register", "domain">>))) >>,
      << Prereq("req", PText(Txt(FALSE, <<"sender", "signature">>))) >> }

\* the members of S in increasing (up) or decreasing order
Ordered(S, up) ==
    CHOOSE f \in [1..Cardinality(S) -> S] :
        \A i, j \in 1..Cardinality(S) : i < j => IF up THEN f[i] < f[j] ELSE f[i] > f[j]

Collections ==
    UNION { { [i \in 1..Cardinality(S) |->
                  [Catalogue[Ordered(S, up)[i]] EXCEPT !.prerequisites = pr[i]]]
              : pr \in [1..Cardinality(S) -> PrereqOptions] }
            : <<S, up>> \in { T \in SUBSET (1..Len(Catalogue)) :
                                 Cardinality(T) <= MaxActions } \X BOOLEAN }

\* an ApiResult; status "none" is a promise that has not settled.  The field
\* result is the sequence actions with isArray telling an array from a single
\* object; processApiEndpoint sets multipleApis to Array.isArray(parsedData)
ApiResult(u, st, err, as, multi) ==
    [url |-> u, status |-> st, error |-> err, actions |-> as,
     multipleApis |-> multi, isArray |-> multi]

NoResult == ApiResult(0, "none", "", <<>>, FALSE)

\* the object processRootUrl returns; error "" is an absent error property
Payload(rs, sc, ts, err) ==
    [results |-> rs, successCount |-> sc, totalScanned |-> ts, error |-> err]

\* the orchestrator is not in use
PipeIdle ==
    /\ site = [layout |-> 0, direct |-> <<>>, subs |-> <<>>]
    /\ rpc = "off" /\ spc = "off" /\ endpoints = <<>> /\ bi = 0
    /\ ust = [i \in 1..NumUrls |-> "idle"]
    /\ slot = [i \in 1..NumUrls |-> NoResult]
    /\ calls = [i \in 1..NumUrls |-> 0]
    /\ results = <<>> /\ payload = Payload(<<>>, 0, 0, "") /\ overtaken = FALSE

\* a site as discovery sees it: the endpoint links and the same-domain links of
\* the root page and, for each same-domain link, those of the page behind it
FlowSite(ends, subs) == [ends |-> ends, subs |-> subs]

\* no workflow is under way
FlowIdle ==
    /\ fvariant = "none" /\ fsite = FlowSite(<<>>, <<>>) /\ cb = "none" /\ fpc = "off"
    /\ fi = 0 /\ fsubs = <<>> /\ fetched = <<>> /\ fends = <<>> /\ fproc = <<>>
    /\ emitted = <<>> /\ pending = 0 /\ escaped = FALSE /\ fret = "none" /\ failed = {}

\* the streaming endpoint has served no request
StreamIdle ==
    /\ active = 0 /\ task = <<>> /\ wf = <<>> /\ timers = <<>>
    /\ cleanup = {} /\ stream = <<>> /\ posted = 0

\* no page of the client is open
KeyIdle == apiKey = "" /\ additionalApiKey = "" /\ wire = {} /\ serverKeys = {}

\* no text is under classification
TextIdle ==
    /\ tfun = "none" /\ txt = <<>> /\ suffix = <<>> /\ glued = FALSE
    /\ tout = FALSE /\ tjoined = FALSE /\ tpc = "off"

\* no linker call on stage-2 results is under way
CallIdle ==
    /\ entry = "none" /\ sai = "nokey" /\ sres = <<>> /\ shand = <<>>
    /\ sout = [threw |-> FALSE, actions |-> <<>>, results |-> <<>>] /\ s3pc = "off"

\* the parser is not in use
ParseIdle == presp = [mode |-> "object", syntax |-> "ok", elems |-> <<>>]
                 /\ ppc = "off" /\ pout = [kind |-> "none", actions |-> <<>>]

InitLink ==
    /\ ParseIdle /\ PipeIdle /\ CallIdle /\ FlowIdle /\ TextIdle /\ KeyIdle /\ StreamIdle
    /\ impl \in {"util", "stage3"}
    /\ input \in Collections
    /\ orig = input
    /\ linked = <<>>
    /\ li = 0 /\ lk = 0
    /\ lpc = "idle"
    /\ pass = 1
    /\ first = <<>>

NextLink ==
    \/ LinkStart /\ UNCHANGED <<parseVars, pipeVars, callVars, flowVars, textVars, keyVars, streamVars>>
    \/ LinkStep /\ UNCHANGED <<parseVars, pipeVars, callVars, flowVars, textVars, keyVars, streamVars>>
    \/ LinkAgain /\ UNCHANGED <<parseVars, pipeVars, callVars, flowVars, textVars, keyVars, streamVars>>

SpecLink == InitLink /\ [][NextLink]_vars

\* C1 (as stated): applying the linker to its own output returns an identical
\* collection, link(link(A)) = link(A)
C1_Idempotent == (pass = 2 /\ lpc = "done") => linked = first

\* the first pass has ended, by returning or by throwing
FirstPassOver == pass = 1 /\ lpc \in {"done", "threw"}

\* entry k of Action i of the original collection is a text equal to the
\* step_name of another Action j
NamesOther(i, k, j) ==
    /\ i \in 1..Len(orig) /\ j \in 1..Len(orig) /\ i # j
    /\ k \in 1..Len(orig[i].prerequisites)
    /\ ~orig[i].prerequisites[k].val.ref
    /\ orig[i].prerequisites[k].val.text = orig[j].step_name

\* the value entry k of the Action with orig[i]'s id has in the returned collection
LinkedVal(i, k) ==
    LET m == CHOOSE n \in 1..Len(linked) : linked[n].id = orig[i].id
    IN  linked[m].prerequisites[k].val

ResolvedTo(i, k, j) ==
    /\ lpc = "done"
    /\ \E n \in 1..Len(linked) : linked[n].id = orig[i].id
    /\ LinkedVal(i, k).ref
    /\ LinkedVal(i, k).id = orig[j].id

Eligible(t) ==
    IF impl = "util" THEN StrLength(t) >= MinPrereqLength ELSE Stage3TermIdx(t) # {}

EveryActionHasInputs == \A n \in 1..Len(orig) : Has(orig[n], "inputs")

-----------------------------------------------------------------------------
(***************************************************************************)
(* parseAiResponse                                                         *)
(*                                                                         *)
(* A response is [mode, syntax, elems]: mode "array" when the trimmed text *)
(* starts with [ and ends with ], else "object"; syntax "ok" when          *)
(* JSON.parse accepts the extracted span, "fixable" when it does only      *)
(* after cleanFixBrokenJsonArray / cleanFixBrokenJsonObject, "broken" when *)
(* the second JSON.parse throws too; elems the objects the text holds.     *)
(***************************************************************************)
\* `action_${uuidv4()}`: the n-th identifier generated during one call
GenId(n) ==
    CASE n = 1 -> "action_uuid1" [] n = 2 -> "action_uuid2" [] n = 3 -> "action_uuid3"
      [] n = 4 -> "action_uuid4" [] n = 5 -> "action_uuid5" [] OTHER -> "action_uuid6"

RECURSIVE EnsureUniqueIds(_, _, _, _)
\* validActions.forEach(action => ...) with uniqueIds = seen and n identifiers
\* generated so far
EnsureUniqueIds(as, i, seen, n) ==
    IF i > Len(as) THEN as
    ELSE IF ~Has(as[i], "id") \/ as[i].id = "" \/ as[i].id \in seen
         THEN EnsureUniqueIds(
                  [as EXCEPT ![i].id = GenId(n + 1), ![i].present = @ \cup {"id"}],
                  i + 1, seen \cup {GenId(n + 1)}, n + 1)
         ELSE EnsureUniqueIds(as, i + 1, seen \cup {as[i].id}, n)

ParseError == [kind |-> "error", actions |-> <<>>]

\* the isArray branch
ParseArray(r) ==
    LET v == validateAndCleanActions(r.elems)
    IN  IF r.syntax = "broken" THEN ParseError
        ELSE IF v.threw THEN ParseError
        ELSE IF Len(v.actions) = 0 THEN ParseError
        ELSE [kind |-> "array", actions |-> EnsureUniqueIds(v.actions, 1, {}, 0)]

\* the single-object branch
ParseObject(r) ==
    IF r.syntax = "broken" \/ r.elems = <<>> THEN ParseError
    ELSE IF isTemplateResponse(r.elems[1]) # "no" THEN ParseError
    ELSE IF MissingRequired(r.elems[1]) THEN ParseError
    ELSE [kind |-> "object", actions |-> <<r.elems[1]>>]

parseAiResponse(r) == IF r.mode = "array" THEN ParseArray(r) ELSE ParseObject(r)

\* the objects a response may hold
Elem(id, step, url, present) ==
    Act(id, step, Txt(FALSE, <<"send", "email">>), {"email"}, url, present)

RealName == Txt(FALSE, <<"send", "email">>)
RealUrl == Txt(FALSE, <<"email">>)
TemplateName == Txt(TRUE, <<"replace", "with", "actual", "api", "name">>)
TemplateUrl == Txt(TRUE, <<"replace", "with", "actual", "api", "url">>)

\* the id the model wrote: a string, or "" for an id that is absent
ElemIds == {"x", "y", ""}

PresentFor(id) == IF id = "" THEN AllFields \ {"id"} ELSE AllFields

Elems ==
    { Elem(id, RealName, RealUrl, PresentFor(id)) : id \in ElemIds }
    \cup { Elem(id, TemplateName, TemplateUrl, PresentFor(id)) : id \in ElemIds }
    \cup { Elem(id, RealName, TemplateUrl, PresentFor(id)) : id \in ElemIds }
    \cup { Elem(id, RealName, RealUrl, PresentFor(id) \ {"action"}) : id \in ElemIds }
    \cup { Elem("", RealName, RealUrl, AllFields),
           Elem("x", RealName, Txt(FALSE, <<"example">>), AllFields) }

SeqsUpTo(S, n) == UNION { [1..m -> S] : m \in 0..n }

Responses ==
    { [mode |-> "array", syntax |-> sx, elems |-> es] :
          sx \in {"ok", "fixable", "broken"}, es \in SeqsUpTo(Elems, MaxElems) }
    \cup { [mode |-> "object", syntax |-> sx, elems |-> <<e>>] :
          sx \in {"ok", "fixable", "broken"}, e \in Elems }

\* the linker is not in use
LinkIdle ==
    /\ impl = "util" /\ input = <<>> /\ orig = <<>> /\ linked = <<>> /\ first = <<>>
    /\ li = 0 /\ lk = 0 /\ lpc = "off" /\ pass = 0

InitParse ==
    /\ LinkIdle /\ PipeIdle /\ CallIdle /\ FlowIdle /\ TextIdle /\ KeyIdle /\ StreamIdle
    /\ presp \in Responses
    /\ ppc = "idle"
    /\ pout = [kind |-> "none", actions |-> <<>>]

\* one synchronous call of parseAiResponse
Parse ==
    /\ ppc = "idle"
    /\ pout' = parseAiResponse(presp)
    /\ ppc' = "done"
    /\ UNCHANGED presp

NextParse == Parse /\ UNCHANGED <<linkVars, pipeVars, callVars, flowVars, textVars, keyVars, streamVars>>

SpecParse == InitParse /\ [][NextParse]_vars

\* an element the claim calls "otherwise valid and free of placeholder text"
OtherwiseValid(e) ==
    /\ AllFields \ {"id"} \subseteq e.present
    /\ e.step_name.words # <<>> /\ e.action.words # <<>> /\ e.url.words # <<>>
    /\ ~HasPlaceholder(e.step_name) /\ ~HasPlaceholder(e.action) /\ ~HasPlaceholder(e.url)

DistinctIds(as) == \A i, j \in 1..Len(as) : i # j => as[i].id # as[j].id

\* C2 (as stated): in array mode, N otherwise valid objects with missing or
\* duplicated ids come back as exactly N Actions with non-empty, pairwise
\* distinct ids
C2_ExactlyNDistinct ==
    (/\ ppc = "done" /\ presp.mode = "array" /\ presp.syntax # "broken"
     /\ Len(presp.elems) >= 1
     /\ \A i \in 1..Len(presp.elems) : OtherwiseValid(presp.elems[i]))
    => /\ pout.kind = "array"
       /\ Len(pout.actions) = Len(presp.elems)
       /\ \A i \in 1..Len(pout.actions) : pout.actions[i].id # ""
       /\ DistinctIds(pout.actions)

\* a field of the returned Action holds one of the placeholder markers
Marked(a) == HasPlaceholder(a.step_name) \/ HasPlaceholder(a.action) \/ HasPlaceholder(a.url)

\* the element survives template rejection and field validation
Survives(e) == isTemplateResponse(e) = "no" /\ ~MissingRequired(e)

SameButId(a, e) == [a EXCEPT !.id = "", !.present = {}] = [e EXCEPT !.id = "", !.present = {}]

-----------------------------------------------------------------------------
(***************************************************************************)
(* processRootUrl: scraping, processApiEndpoints, linkPrerequisites        *)
(*                                                                         *)
(* Endpoint URLs are numbers.  A site is [layout, direct, subs]: the       *)
(* endpoint links of the root page, the endpoint links of each subsection  *)
(* page, and a layout that fixes what the page behind each URL holds.      *)
(***************************************************************************)
batchSize == 5
MinKeywords == 3

PageKinds == <<"plain", "needs", "noinputs", "notdoc", "template">>

KindOf(layout, u) == PageKinds[((u + layout) % Len(PageKinds)) + 1]

\* keywordCount of the page text behind URL u
KeywordCount(layout, u) ==
    IF KindOf(layout, u) = "notdoc" THEN MinKeywords - 1 ELSE MinKeywords

isApiDocumentationAtLeastTwo(keywordCount) == keywordCount >= MinKeywords - 1

isApiDocumentation(keywordCount) == keywordCount >= MinKeywords

UrlId(u) ==
    CASE u = 1 -> "u1" [] u = 2 -> "u2" [] u = 3 -> "u3" [] u = 4 -> "u4"
      [] u = 5 -> "u5" [] u = 6 -> "u6" [] u = 7 -> "u7" [] OTHER -> "u8"

\* the object the model extracts from the page behind URL u
PageAction(layout, u) ==
    LET k == KindOf(layout, u)
    IN  IF k = "needs"
        THEN [Catalogue[1] EXCEPT !.id = UrlId(u),
                  !.prerequisites = << Prereq("req", PText(Catalogue[2].step_name)) >>]
        ELSE IF k = "noinputs" THEN [Catalogue[5] EXCEPT !.id = UrlId(u)]
        ELSE IF k = "template" THEN Elem(UrlId(u), TemplateName, TemplateUrl, AllFields)
        ELSE [Catalogue[2] EXCEPT !.id = UrlId(u)]

\* the text the model answers with for that page
ResponseOf(layout, u) ==
    [mode |-> "object", syntax |-> "ok", elems |-> << PageAction(layout, u) >>]

Sites ==
    { [layout |-> l, direct |-> [i \in 1..n |-> i], subs |-> <<>>] :
          l \in 0..(Len(PageKinds) - 1), n \in 1..NumUrls }
    \cup { [layout |-> l, direct |-> <<>>, subs |-> ss] :
          l \in 0..(Len(PageKinds) - 1),
          ss \in SeqsUpTo({ <<>>, <<1, 2>>, <<2, 3>> }, MaxSubs) }

RECURSIVE Concat(_)
Concat(ss) == IF ss = <<>> THEN <<>> ELSE Head(ss) \o Concat(Tail(ss))

\* Array.from(new Set(urls)): first occurrences, in order
Dedupe(s) ==
    LET keep == SelectIdx(s, [i \in 1..Len(s) |-> \A j \in 1..(i - 1) : s[j] # s[i]], 1)
    IN  [n \in 1..Len(keep) |-> s[keep[n]]]

NoEndpointsPayloadNoError == Payload(<<>>, 0, 0, "")

NoEndpointsPayload == Payload(<<>>, 0, 0, "No API documentation found")

NoSuccessPayload(rs, n) ==
    Payload(rs, 0, n, "No valid API documentation found in any of the linked pages")

\* the catch block of processRootUrl
CaughtPayload(msg) == Payload(<<>>, 0, 0, msg)

\* stage 1: scrapeRootPage of the root and of the subsections, the
\* de-duplication and the return when there is no endpoint
Stage1 ==
    /\ rpc = "stage1"
    /\ \E rootOk \in BOOLEAN, subsOk \in BOOLEAN :
         LET needSubs == site.direct = <<>> /\ site.subs # <<>>
             all == Dedupe(site.direct \o (IF needSubs THEN Concat(site.subs) ELSE <<>>))
         IN  IF ~rootOk \/ (needSubs /\ ~subsOk)
             THEN /\ payload' = CaughtPayload("Network Error")
                  /\ rpc' = "returned"
                  /\ UNCHANGED <<endpoints, spc, bi>>
             ELSE IF all = <<>>
             THEN /\ payload' = NoEndpointsPayload
                  /\ rpc' = "returned"
                  /\ UNCHANGED <<endpoints, spc, bi>>
             ELSE /\ endpoints' = all
                  /\ rpc' = "stage2" /\ spc' = "dispatch" /\ bi' = 1
                  /\ UNCHANGED payload
    /\ UNCHANGED <<site, ust, slot, calls, results, overtaken>>

\* the indexes of apiEndpointUrls.slice(i, i + batchSize)
Batch(i) == { n \in 1..Len(endpoints) : i <= n /\ n < i + batchSize }

\* batch.map(url => processApiEndpoint(...)): every call runs to its first await
DispatchBatch ==
    /\ spc = "dispatch" /\ bi <= Len(endpoints)
    /\ ust' = [n \in 1..NumUrls |-> IF n \in Batch(bi) THEN "fetching" ELSE ust[n]]
    /\ spc' = "await"
    /\ UNCHANGED <<site, rpc, endpoints, bi, slot, calls, results, payload, overtaken>>

Rejection(u, msg) == ApiResult(u, "rejected", msg, <<>>, FALSE)

\* the catch block of processApiEndpoint
ErrorResult(u, msg) == ApiResult(u, "error", msg, <<>>, FALSE)

SkippedResult(u) == ApiResult(u, "skipped", "", <<>>, FALSE)

\* the promise of the n-th URL settles with r
Settle(n, r) ==
    /\ ust' = [ust EXCEPT ![n] = "settled"]
    /\ slot' = [slot EXCEPT ![n] = r]
    /\ overtaken' = (overtaken \/ \E m \in Batch(bi) : m < n /\ ust[m] # "settled")

\* scrapeData answers or fails; a page that is not API documentation is skipped
FetchDone(n) ==
    /\ ust[n] = "fetching"
    /\ \E ok \in BOOLEAN :
         IF ~ok
         THEN Settle(n, ErrorResult(endpoints[n], "Network Error")) /\ UNCHANGED calls
         ELSE IF ~isApiDocumentation(KeywordCount(site.layout, endpoints[n]))
         THEN Settle(n, SkippedResult(endpoints[n])) /\ UNCHANGED calls
         ELSE /\ ust' = [ust EXCEPT ![n] = "model"]
              /\ calls' = [calls EXCEPT ![n] = @ + 1]
              /\ UNCHANGED <<slot, overtaken>>
    /\ UNCHANGED <<site, rpc, endpoints, spc, bi, results, payload>>

\* sendToOpenAI / sendToGemini answers or fails; the answer is parsed
ModelDone(n) ==
    /\ ust[n] = "model"
    /\ \E ok \in BOOLEAN :
         LET parsed == parseAiResponse(ResponseOf(site.layout, endpoints[n]))
         IN  IF ~ok THEN Settle(n, ErrorResult(endpoints[n], "Model Error"))
             ELSE IF parsed.kind = "error"
             THEN Settle(n, ErrorResult(endpoints[n], "Failed to parse AI response"))
             ELSE Settle(n, ApiResult(endpoints[n], "success", "", parsed.actions,
                                      parsed.kind = "array"))
    /\ UNCHANGED <<site, rpc, endpoints, spc, bi, calls, results, payload>>

FirstSettled(i) == \E n \in Batch(i) : ust[n] = "settled"

\* await Promise.all(...) resumes
BatchSettled(i) == \A n \in Batch(i) : ust[n] = "settled"

BatchResultsReversed(i) ==
    [n \in 1..Cardinality(Batch(i)) |-> slot[i + Cardinality(Batch(i)) - n]]

\* batchResults: the values of the promises, by position
BatchResults(i) == [n \in 1..Cardinality(Batch(i)) |-> slot[i + n - 1]]

\* results.push(...batchResults) and the next turn of the loop; a rejected
\* promise rejects Promise.all, which the catch of processRootUrl turns into
\* its payload
JoinBatch ==
    /\ spc = "await" /\ BatchSettled(bi)
    /\ IF \E n \in Batch(bi) : slot[n].status = "rejected"
       THEN /\ spc' = "rejected" /\ rpc' = "returned"
            /\ payload' = CaughtPayload("Network Error")
            /\ UNCHANGED <<results, bi>>
       ELSE /\ results' = results \o BatchResults(bi)
            /\ bi' = bi + batchSize
            /\ spc' = "dispatch"
            /\ UNCHANGED <<rpc, payload>>
    /\ UNCHANGED <<site, endpoints, ust, slot, calls, overtaken>>

SuccessCount(rs) == Cardinality({ n \in 1..Len(rs) : rs[n].status = "success" })

\* processApiEndpoints returns; processRootUrl counts the successes
Stage2Done ==
    /\ spc = "dispatch" /\ bi > Len(endpoints)
    /\ spc' = "returned"
    /\ IF SuccessCount(results) = 0
       THEN /\ payload' = NoSuccessPayload(results, Len(endpoints))
            /\ rpc' = "returned"
       ELSE /\ rpc' = "stage3"
            /\ UNCHANGED payload
    /\ UNCHANGED <<site, endpoints, bi, ust, slot, calls, results, overtaken>>

\* what the model does when stage 3 asks it for a match: the call fails or
\* its answer does not parse ("heuristic"), it answers actionId null ("null"),
\* it names the first of the other Actions ("names")
AiModes == {"heuristic", "null", "names"}

\* the actionId of the model's answer: the id of the first of the other
\* Actions ("names"), the id of the Action that owns the prerequisite ("self"),
\* an id that no Action has ("unknown")
AnsweredId(ai, as, currentActionId) ==
    IF ai = "names" THEN as[OtherIdx(as, currentActionId)[1]].id
    ELSE IF ai = "self" THEN currentActionId
    ELSE "action_unknown"

\* otherActions.find(action => action.id === actionId)
FindById(as, others, actionId) ==
    LET hits == SelectSeq(others, LAMBDA n : as[n].id = actionId)
    IN  IF hits = <<>> THEN None ELSE Found(hits[1])

\* findRelevantActionWithAI of stage 3; "nokey" is a call without a credential
findRelevantActionWithAI(ai, t, as, currentActionId) ==
    LET others == OtherIdx(as, currentActionId)
    IN  IF others = <<>> THEN None
        ELSE IF ai \in {"nokey", "heuristic"} THEN stage3Heuristic(t, as, currentActionId)
        ELSE IF ai = "null" THEN None
        ELSE FindById(as, others, AnsweredId(ai, as, currentActionId))

\* the body of the inner loop of stage 3 for entry k of Action i
LinkEntryWithAI(ai, as, i, k) ==
    LET v == as[i].prerequisites[k].val
        r == findRelevantActionWithAI(ai, v.text, as, as[i].id)
    IN  IF v.ref THEN [threw |-> FALSE, actions |-> as]
        ELSE IF r.kind = "found"
             THEN [threw |-> FALSE, actions |-> SetRef(as, i, k, as[r.idx])]
        ELSE IF r.kind = "throw" THEN [threw |-> TRUE, actions |-> as]
        ELSE [threw |-> FALSE, actions |-> as]

RECURSIVE LinkFrom(_, _, _, _)
\* linkActionPrerequisites of stage 3 from entry k of Action i on
LinkFrom(ai, as, i, k) ==
    LET pos == NextPos(as, i, k)
        r == LinkEntryWithAI(ai, as, pos[1], pos[2])
    IN  IF pos[1] > Len(as) THEN [threw |-> FALSE, actions |-> as]
        ELSE IF r.threw THEN r
        ELSE LinkFrom(ai, r.actions, pos[1], pos[2] + 1)

\* every successful result gives its Actions
AnySuccess(r) == r.status = "success"

\* the two branches of the flatMap and of the map that give Actions: an array
\* with the flag multipleApis, or a result that is not an array
Linkable(r) ==
    /\ r.status = "success"
    /\ (r.multipleApis /\ r.isArray) \/ ~r.isArray

RECURSIVE SuccessfulActions(_)
\* the flatMap over the successful results
SuccessfulActions(rs) ==
    IF rs = <<>> THEN <<>>
    ELSE (IF Linkable(Head(rs)) THEN Head(rs).actions ELSE <<>>)
             \o SuccessfulActions(Tail(rs))

\* linkedActions.find(action => action.id === apiData.id) || apiData
FindLinked(ls, a) ==
    IF \E n \in 1..Len(ls) : ls[n].id = a.id
    THEN ls[CHOOSE n \in 1..Len(ls) :
                ls[n].id = a.id /\ \A m \in 1..(n - 1) : ls[m].id # a.id]
    ELSE a

\* linkPrerequisites: [threw, results]
linkPrerequisites(ai, rs) ==
    LET l == LinkFrom(ai, SuccessfulActions(rs), 1, 1)
    IN  IF l.threw THEN [threw |-> TRUE, results |-> <<>>]
        ELSE [threw |-> FALSE,
              results |-> [n \in 1..Len(rs) |->
                  IF Linkable(rs[n])
                  THEN [rs[n] EXCEPT !.actions =
                            [j \in 1..Len(rs[n].actions) |-> FindLinked(l.actions, rs[n].actions[j])]]
                  ELSE rs[n]]]

\* stage 3 and the return of processRootUrl
Stage3 ==
    /\ rpc = "stage3"
    /\ \E ai \in AiModes :
         LET l == linkPrerequisites(ai, results)
         IN  payload' = IF l.threw
                        THEN CaughtPayload("Cannot convert undefined or null to object")
                        ELSE Payload(l.results, SuccessCount(results), Len(endpoints), "")
    /\ rpc' = "returned"
    /\ UNCHANGED <<site, endpoints, spc, bi, ust, slot, calls, results, overtaken>>

InitPipe ==
    /\ LinkIdle /\ ParseIdle /\ CallIdle /\ FlowIdle /\ TextIdle /\ KeyIdle /\ StreamIdle
    /\ site \in Sites
    /\ rpc = "stage1" /\ spc = "off" /\ endpoints = <<>> /\ bi = 0
    /\ ust = [i \in 1..NumUrls |-> "idle"]
    /\ slot = [i \in 1..NumUrls |-> NoResult]
    /\ calls = [i \in 1..NumUrls |-> 0]
    /\ results = <<>> /\ payload = Payload(<<>>, 0, 0, "") /\ overtaken = FALSE

NextPipe ==
    \/ Stage1 /\ UNCHANGED <<linkVars, parseVars, callVars, flowVars, textVars, keyVars, streamVars>>
    \/ DispatchBatch /\ UNCHANGED <<linkVars, parseVars, callVars, flowVars, textVars, keyVars, streamVars>>
    \/ (\E n \in 1..NumUrls : FetchDone(n)) /\ UNCHANGED <<linkVars, parseVars, callVars, flowVars, textVars, keyVars, streamVars>>
    \/ (\E n \in 1..NumUrls : ModelDone(n)) /\ UNCHANGED <<linkVars, parseVars, callVars, flowVars, textVars, keyVars, streamVars>>
    \/ JoinBatch /\ UNCHANGED <<linkVars, parseVars, callVars, flowVars, textVars, keyVars, streamVars>>
    \/ Stage2Done /\ UNCHANGED <<linkVars, parseVars, callVars, flowVars, textVars, keyVars, streamVars>>
    \/ Stage3 /\ UNCHANGED <<linkVars, parseVars, callVars, flowVars, textVars, keyVars, streamVars>>

SpecPipe == InitPipe /\ [][NextPipe]_vars

\* the ApiResult the page behind the n-th URL gives when nothing fails
Expected(n) ==
    LET u == endpoints[n]
        parsed == parseAiResponse(ResponseOf(site.layout, u))
    IN  IF ~isApiDocumentation(KeywordCount(site.layout, u)) THEN SkippedResult(u)
        ELSE ApiResult(u, "success", "", parsed.actions, parsed.kind = "array")

\* C3: a fetch failure, a model-call failure or a parse failure of one URL
\* gives that URL an 'error' result and nothing else: every URL of every batch
\* has its own result, a URL without a failure has the result its page gives,
\* and processApiEndpoints never rejects
C3_ErrorIsolation ==
    /\ spc # "rejected"
    /\ spc = "returned" =>
          /\ Len(results) = Len(endpoints)
          /\ \A n \in 1..Len(endpoints) :
                /\ results[n].url = endpoints[n]
                /\ results[n].status \in {"success", "error", "skipped"}
                /\ results[n].error = "Network Error" =>
                      results[n].status = "error" /\ calls[n] = 0
                /\ results[n].error = "Model Error" =>
                      results[n].status = "error" /\ calls[n] = 1
                /\ results[n].error = "Failed to parse AI response" =>
                      /\ results[n].status = "error"
                      /\ KindOf(site.layout, endpoints[n]) = "template"
                /\ results[n].error = "" =>
                      /\ results[n] = Expected(n)
                      /\ KindOf(site.layout, endpoints[n]) # "template"

\* C3 witness: two batches were processed, each of the three failures struck
\* some URL, and a URL of the first batch and one of the second succeeded
C3_Witness ==
    /\ spc = "returned" /\ Len(results) > batchSize
    /\ \A e \in {"Network Error", "Model Error", "Failed to parse AI response"} :
          \E n \in 1..batchSize : results[n].error = e
    /\ \E n \in 1..batchSize : results[n].status = "success"
    /\ results[batchSize + 1].status = "success"

\* C4: a URL whose fetched page text has fewer keywords than isApiDocumentation
\* asks for gets a 'skipped' ApiResult, and no model call is ever made for it
C4_SkippedWithoutModelCall ==
    \A n \in 1..Len(endpoints) :
        KeywordCount(site.layout, endpoints[n]) < MinKeywords =>
            /\ calls[n] = 0
            /\ (ust[n] = "settled" /\ slot[n].error # "Network Error") =>
                   slot[n].status = "skipped"

\* C4 witness: one URL of a batch was skipped without a model call while the
\* model was called for another
C4_Witness ==
    \E n, m \in 1..Len(endpoints) :
        /\ slot[n].status = "skipped" /\ calls[n] = 0
        /\ KeywordCount(site.layout, endpoints[n]) < MinKeywords
        /\ calls[m] = 1

InFlight == { n \in 1..NumUrls : ust[n] \in {"fetching", "model"} }

BatchOf(n) == (n - 1) \div batchSize

\* C5: a URL is dispatched only when every URL of the earlier batches has its
\* ApiResult, and at most batchSize URLs are being fetched or wait for the model
C5_BatchBackpressure ==
    /\ Cardinality(InFlight) <= batchSize
    /\ \A n, m \in 1..NumUrls :
          (ust[n] # "idle" /\ BatchOf(m) < BatchOf(n)) => ust[m] = "settled"

\* C5 witness: a URL of the second batch is in flight
C5_Witness ==
    /\ InFlight # {}
    /\ \A n \in InFlight : BatchOf(n) = 1
    /\ Len(results) = batchSize

\* C6: processApiEndpoints returns one ApiResult per input URL, the n-th being
\* the one the n-th URL's promise resolved to
C6_ResultsInInputOrder ==
    /\ \A n \in 1..Len(results) : results[n].url = endpoints[n]
    /\ spc = "returned" =>
          /\ Len(results) = Len(endpoints)
          /\ \A n \in 1..Len(endpoints) : results[n] = slot[n]

\* C6 witness: processApiEndpoints returned the results of two batches in which
\* some URL settled before an earlier URL of its batch
C6_Witness ==
    /\ spc = "returned" /\ overtaken
    /\ Len(results) > batchSize

\* C7: with no endpoint URL found, processRootUrl returns a payload with
\* successCount 0, no results and a non-empty error
C7_NoEndpointsReturnsError ==
    /\ endpoints = <<>> => rpc \in {"stage1", "returned"}
    /\ (rpc = "returned" /\ endpoints = <<>>) =>
          /\ payload.successCount = 0
          /\ payload.results = <<>>
          /\ payload.error # ""

\* C7 witness: the root page and two subsection pages were fetched, none holds
\* an endpoint link, and processRootUrl has returned
C7_Witness ==
    /\ rpc = "returned" /\ endpoints = <<>>
    /\ Len(site.subs) = 2
    /\ payload = Payload(<<>>, 0, 0, "No API documentation found")

\* C8 (as stated): once stage 2 has produced its ApiResults, the payload of
\* processRootUrl holds one result per endpoint URL, with the outcome stage 2
\* gave it, and the counts of the outcomes
C8_PayloadHoldsAllResults ==
    (rpc = "returned" /\ spc = "returned") =>
        /\ Len(payload.results) = Len(endpoints)
        /\ \A n \in 1..Len(payload.results) :
              /\ payload.results[n].url = endpoints[n]
              /\ payload.results[n].status = results[n].status
        /\ payload.successCount = SuccessCount(results)
        /\ payload.totalScanned = Len(endpoints)

-----------------------------------------------------------------------------
(***************************************************************************)
(* One linker call on the results of stage 2                               *)
(*                                                                         *)
(* entry "stage3" is linkPrerequisites(results, apiKey) of                 *)
(* stages/3-linking; entry "util" is a caller that collects the Actions of *)
(* the successful results and calls linkActionPrerequisites of util/ai.ts. *)
(***************************************************************************)
CallModes == AiModes \cup {"nokey", "self", "unknown"}

\* a copy of the array alone: its elements are the caller's objects
ShallowCopy(as) == [objects |-> as, shared |-> TRUE]

\* JSON.parse(JSON.stringify(as)): the same values in objects of their own
DeepCopy(as) == [objects |-> as, shared |-> FALSE]

\* findMostRelevantAction of util/ai.ts: the model first when there is a
\* credential, the heuristic when it gives no match
utilFindMostRelevantAction(ai, t, as, currentActionId) ==
    LET others == OtherIdx(as, currentActionId)
        named == FindById(as, others, AnsweredId(ai, as, currentActionId))
    IN  IF ai \in {"names", "self", "unknown"} /\ others # <<>> /\ named.kind = "found"
        THEN named
        ELSE utilHeuristic(t, as, currentActionId)

\* the body of the inner loop of util/ai.ts for entry k of Action i
UtilLinkEntry(ai, as, i, k) ==
    LET v == as[i].prerequisites[k].val
        r == utilFindMostRelevantAction(ai, v.text, as, as[i].id)
    IN  IF v.ref \/ TooShort("util", v.text) THEN as
        ELSE IF r.kind = "found" THEN SetRef(as, i, k, as[r.idx])
        ELSE as

RECURSIVE UtilLinkFrom(_, _, _, _)
\* the loops of linkActionPrerequisites of util/ai.ts from entry k of Action i on
UtilLinkFrom(ai, as, i, k) ==
    LET pos == NextPos(as, i, k)
    IN  IF pos[1] > Len(as) THEN as
        ELSE UtilLinkFrom(ai, UtilLinkEntry(ai, as, pos[1], pos[2]), pos[1], pos[2] + 1)

\* the positions of the collection that validateAndCleanActions keeps
KeptIdx(as) == SelectIdx(as, [n \in 1..Len(as) |-> KeepAction(as[n])], 1)

\* linkActionPrerequisites of util/ai.ts: [threw, actions, written], written
\* being the caller's collection after the call
utilLinkActionPrerequisites(ai, as) ==
    LET v == validateAndCleanActions(as)
        copy == DeepCopy(v.actions)
        out == UtilLinkFrom(ai, copy.objects, 1, 1)
        kept == KeptIdx(as)
    IN  IF Len(as) <= 1 THEN [threw |-> FALSE, actions |-> as, written |-> as]
        ELSE IF v.threw THEN [threw |-> TRUE, actions |-> <<>>, written |-> as]
        ELSE IF v.actions = <<>> THEN [threw |-> FALSE, actions |-> as, written |-> as]
        ELSE [threw |-> FALSE, actions |-> out,
              written |-> IF copy.shared
                          THEN [n \in 1..Len(as) |->
                                   IF \E j \in 1..Len(kept) : kept[j] = n
                                   THEN out[CHOOSE j \in 1..Len(kept) : kept[j] = n]
                                   ELSE as[n]]
                          ELSE as]

\* linkActionPrerequisites of stages/3-linking: [threw, actions, written]
stage3LinkActionPrerequisites(ai, as) ==
    LET copy == DeepCopy(as)
        l == LinkFrom(ai, copy.objects, 1, 1)
    IN  [threw |-> l.threw, actions |-> l.actions,
         written |-> IF copy.shared THEN l.actions ELSE as]

RECURSIVE WriteBack(_, _)
\* the caller's results when their Actions are the objects of the collection ls
WriteBack(rs, ls) ==
    IF rs = <<>> THEN <<>>
    ELSE IF Linkable(Head(rs))
    THEN << [Head(rs) EXCEPT !.actions = SubSeq(ls, 1, Len(Head(rs).actions))] >>
             \o WriteBack(Tail(rs), SubSeq(ls, Len(Head(rs).actions) + 1, Len(ls)))
    ELSE << Head(rs) >> \o WriteBack(Tail(rs), ls)

ShortText == Txt(FALSE, <<"send", "sms">>)

\* what the model answers for the page of the n-th URL: an object with the id
\* of the prompt, an object or an array with ids of the model's own
CallResponses(n) ==
    { [mode |-> "object", syntax |-> "ok", elems |-> << a >>] :
          a \in { [Catalogue[2] EXCEPT !.id = UrlId(n)],
                  [Catalogue[1] EXCEPT !.id = UrlId(n),
                       !.prerequisites = << Prereq("req", PText(Catalogue[2].step_name)) >>],
                  [Catalogue[1] EXCEPT !.id = UrlId(n),
                       !.prerequisites = << Prereq("req", PText(ShortText)) >>],
                  [Catalogue[2] EXCEPT !.id = "action_1"] } }
    \cup { [mode |-> "array", syntax |-> "ok",
            elems |-> << [Catalogue[2] EXCEPT !.id = "action_1"],
                         [Catalogue[1] EXCEPT !.id = "action_2",
                              !.prerequisites = << Prereq("req", PText(Catalogue[2].step_name)) >>] >>] }

\* the ApiResult of processApiEndpoint for a model answer
ResultOf(u, response) ==
    LET parsed == parseAiResponse(response)
    IN  IF parsed.kind = "error" THEN ErrorResult(u, "Failed to parse AI response")
        ELSE ApiResult(u, "success", "", parsed.actions, parsed.kind = "array")

\* the ApiResult of processApiEndpointWithPuppeteer with a credential: the
\* parsed answer with the flag the page detection gave
PuppeteerResultOf(u, response, hasMultipleApis) ==
    LET r == ResultOf(u, response)
    IN  IF r.status = "success" THEN [r EXCEPT !.multipleApis = hasMultipleApis] ELSE r

\* answers whose shape the page detection did not foresee: an array on a page
\* detected as single, an object on a page detected as multiple
PuppeteerResponses(n) ==
    { r \in CallResponses(n) :
          \/ r.mode = "array"
          \/ r.elems[1].id = UrlId(n) /\ r.elems[1].prerequisites = <<>> }

ResultOptions(n) ==
    { ResultOf(n, r) : r \in CallResponses(n) } \cup { ErrorResult(n, "Network Error") }
        \cup { PuppeteerResultOf(n, r, r.mode # "array") : r \in PuppeteerResponses(n) }

ResultLists ==
    UNION { { rs \in [1..m -> UNION { ResultOptions(n) : n \in 1..m }] :
                  \A n \in 1..m : rs[n] \in ResultOptions(n) } : m \in 1..MaxResults }

InitCall ==
    /\ LinkIdle /\ ParseIdle /\ PipeIdle /\ FlowIdle /\ TextIdle /\ KeyIdle /\ StreamIdle
    /\ entry \in {"stage3", "util"}
    /\ sai \in CallModes
    /\ sres \in ResultLists
    /\ shand = <<>>
    /\ sout = [threw |-> FALSE, actions |-> <<>>, results |-> <<>>]
    /\ s3pc = "call"

\* the caller or linkPrerequisites collects the Actions of the successful
\* results and calls linkActionPrerequisites
CallStart ==
    /\ s3pc = "call"
    /\ shand' = SuccessfulActions(sres)
    /\ s3pc' = "linking"
    /\ UNCHANGED <<entry, sai, sres, sout>>

\* linkActionPrerequisites runs and the call returns or throws
CallReturn ==
    /\ s3pc = "linking"
    /\ LET l == IF entry = "util" THEN utilLinkActionPrerequisites(sai, shand)
                ELSE stage3LinkActionPrerequisites(sai, shand)
       IN  /\ sres' = WriteBack(sres, l.written)
           /\ sout' = [threw |-> l.threw, actions |-> l.actions,
                       results |-> IF entry = "stage3" /\ ~l.threw
                                   THEN linkPrerequisites(sai, sres).results ELSE <<>>]
           /\ s3pc' = IF l.threw THEN "threw" ELSE "done"
    /\ UNCHANGED <<entry, sai, shand>>

NextCall ==
    \/ CallStart /\ UNCHANGED <<linkVars, parseVars, pipeVars, flowVars, textVars, keyVars, streamVars>>
    \/ CallReturn /\ UNCHANGED <<linkVars, parseVars, pipeVars, flowVars, textVars, keyVars, streamVars>>

SpecCall == InitCall /\ [][NextCall]_vars

\* C11 (as stated): the collection linkPrerequisites hands to
\* linkActionPrerequisites has pairwise distinct ids
C11_HandedIdsDistinct ==
    (entry = "stage3" /\ s3pc \in {"linking", "done", "threw"}) => DistinctIds(shand)

\* some prerequisite of the collection is a reference
HasReference(as) ==
    \E i \in 1..Len(as) : \E k \in 1..Len(as[i].prerequisites) : as[i].prerequisites[k].val.ref

\* C12: after the call, by return or by throw, the caller's results and their
\* Actions are what they were when the call was made
C12_InputUnchanged ==
    s3pc \in {"done", "threw"} =>
        /\ SuccessfulActions(sres) = shand
        /\ sres = WriteBack(sres, shand)
        /\ ~HasReference(SuccessfulActions(sres))

\* C12 witness: linkPrerequisites returned results with a resolved reference
\* while the caller's Actions hold none
C12_Witness ==
    /\ s3pc = "done" /\ entry = "stage3"
    /\ HasReference(sout.actions) /\ HasReference(SuccessfulActions(sout.results))
    /\ ~HasReference(SuccessfulActions(sres))

\* the Actions of every 'success' result
RECURSIVE AllSuccessActions(_)
AllSuccessActions(rs) ==
    IF rs = <<>> THEN <<>>
    ELSE (IF AnySuccess(Head(rs)) THEN Head(rs).actions ELSE <<>>)
             \o AllSuccessActions(Tail(rs))

\* C27 (as stated): the collection linkPrerequisites links, as owners and as
\* candidates, holds every Action of every 'success' result, single or array,
\* whatever the flag multipleApis
C27_EverySuccessActionLinked ==
    (entry = "stage3" /\ s3pc \in {"linking", "done", "threw"}) =>
        shand = AllSuccessActions(sres)

-----------------------------------------------------------------------------
(***************************************************************************)
(* Discovery and the streaming workflow                                    *)
(*                                                                         *)
(* fvariant "processRootUrl" is stage 1 of processRootUrl, up to the list  *)
(* of endpoint URLs it hands to stage 2; "createPuppeteerWorkflow" is the  *)
(* whole streaming workflow.  Page 0 is the root, page n the page behind   *)
(* the n-th same-domain link of the root, the pages after those the pages  *)
(* linked from a subsection page.                                          *)
(***************************************************************************)
subsectionBatchSize == 5
subsectionLimit == 5
workflowBatchSize == 3

\* a page behind a same-domain link: its endpoint links, and whether it has a
\* same-domain link of its own
SubPages ==
    { [ends |-> e, deep |-> d] : e \in { <<>>, <<1, 2>>, <<2, 3>> }, d \in BOOLEAN }

\* a root page with m same-domain links and no endpoint link; the first linked
\* page has endpoint links
LongSite(m) ==
    FlowSite(<<>>, [n \in 1..m |-> IF n = 1 THEN [ends |-> <<1, 2>>, deep |-> FALSE]
                                    ELSE [ends |-> <<>>, deep |-> TRUE]])

FlowSites ==
    { FlowSite(e, ss) : e \in { <<>>, <<1, 2>> }, ss \in SeqsUpTo(SubPages, MaxSubs) }
    \cup { LongSite(m) : m \in subsectionLimit..(subsectionLimit + MaxSubs - 1) }

\* the endpoint links and the same-domain links of page p
PageLinks(p) ==
    IF p = 0 THEN [ends |-> fsite.ends, links |-> [n \in 1..Len(fsite.subs) |-> n]]
    ELSE IF p <= Len(fsite.subs)
    THEN [ends |-> fsite.subs[p].ends,
          links |-> IF fsite.subs[p].deep THEN << Len(fsite.subs) + p >> ELSE <<>>]
    ELSE [ends |-> <<>>, links |-> <<>>]

scrapeRootPageAllLinks(p) ==
    [apiEndpointUrls |-> PageLinks(p).ends, subsectionUrls |-> PageLinks(p).links]

\* scrapeRootPage / scrapeRootPageWithPuppeteer of a page that answers
scrapeRootPage(p) ==
    [apiEndpointUrls |-> PageLinks(p).ends,
     subsectionUrls |-> IF PageLinks(p).ends = <<>> THEN PageLinks(p).links ELSE <<>>]

\* a progress update; progress -1 is an update without a progress property
Update(type, progress) == [type |-> type, progress |-> progress]

\* safeCallback for each update of ups: one timer per update when there is a
\* callback
Emit(ups) ==
    /\ emitted' = emitted \o ups
    /\ pending' = IF cb = "none" THEN pending ELSE pending + Len(ups)

\* subsectionUrls.slice(0, 5)
SubsectionsToProcess == SubSeq(fsubs, 1, IF Len(fsubs) < subsectionLimit THEN Len(fsubs)
                                         ELSE subsectionLimit)

\* the workflow after discovery: the return when there is no endpoint, else the
\* start of stage 2 with its first batch and first URL
ToStage2(all, ups) ==
    /\ fends' = all
    /\ IF all = <<>>
       THEN /\ Emit(ups \o << Update("error", 100) >>)
            /\ fret' = "error" /\ fpc' = "returned"
            /\ UNCHANGED fi
       ELSE /\ Emit(ups \o << Update("processing_start", 40), Update("processing_batch", 40),
                              Update("processing_url", -1) >>)
            /\ fpc' = "urls" /\ fi' = 1
            /\ UNCHANGED fret

\* processRootUrl after discovery: the de-duplicated URLs go to stage 2
ToProcessing(all) ==
    /\ fends' = Dedupe(all)
    /\ fret' = IF all = <<>> THEN "error" ELSE "stage2"
    /\ fpc' = "returned"

\* the call: the first update and the fetch of the root page
FStart ==
    /\ fpc = "start"
    /\ fetched' = << 0 >>
    /\ IF fvariant = "createPuppeteerWorkflow"
       THEN Emit(<< Update("scraping_start", 0) >>)
       ELSE UNCHANGED <<emitted, pending>>
    /\ fpc' = "root"
    /\ UNCHANGED <<fvariant, fsite, cb, fi, fsubs, fends, fproc, escaped, fret, failed>>

\* the root page answers or the fetch fails, createPuppeteerWorkflow
FRootWorkflow ==
    /\ fpc = "root" /\ pending = 0 /\ fvariant = "createPuppeteerWorkflow"
    /\ \E ok \in BOOLEAN :
         LET r == scrapeRootPage(0)
             n == Len(SubSeq(r.subsectionUrls, 1,
                             IF Len(r.subsectionUrls) < subsectionLimit
                             THEN Len(r.subsectionUrls) ELSE subsectionLimit))
         IN  IF ~ok
             THEN /\ Emit(<< Update("error", 100) >>)
                  /\ fret' = "error" /\ fpc' = "returned"
                  /\ failed' = failed \cup { 0 }
                  /\ UNCHANGED <<fi, fsubs, fends, fetched>>
             ELSE IF r.apiEndpointUrls = <<>> /\ r.subsectionUrls # <<>>
             THEN /\ Emit(<< Update("scraping_complete", 20), Update("processing_start", 25),
                             Update("processing_url", 25) >>)
                  /\ fsubs' = r.subsectionUrls
                  /\ fetched' = fetched \o << r.subsectionUrls[1] >>
                  /\ fpc' = "subs" /\ fi' = 1
                  /\ UNCHANGED <<fends, fret, failed>>
             ELSE /\ ToStage2(r.apiEndpointUrls, << Update("scraping_complete", 20) >>)
                  /\ fsubs' = r.subsectionUrls
                  /\ UNCHANGED <<fetched, failed>>
    /\ UNCHANGED <<fvariant, fsite, cb, fproc, escaped>>

\* the fi-th subsection page answers or its fetch fails, createPuppeteerWorkflow
FSubWorkflow ==
    /\ fpc = "subs" /\ pending = 0 /\ fvariant = "createPuppeteerWorkflow"
    /\ \E ok \in BOOLEAN :
         LET todo == SubsectionsToProcess
             found == IF ok THEN fends \o scrapeRootPage(todo[fi]).apiEndpointUrls ELSE fends
             ups == IF ok THEN <<>> ELSE << Update("error", -1) >>
         IN  /\ failed' = IF ok THEN failed ELSE failed \cup { todo[fi] }
             /\ IF fi < Len(todo)
                THEN /\ Emit(ups \o << Update("processing_url",
                                              25 + ((fi * 15) \div Len(todo))) >>)
                     /\ fends' = found
                     /\ fetched' = fetched \o << todo[fi + 1] >>
                     /\ fi' = fi + 1
                     /\ UNCHANGED <<fpc, fret>>
                ELSE /\ ToStage2(found, ups)
                     /\ UNCHANGED fetched
    /\ UNCHANGED <<fvariant, fsite, cb, fsubs, fproc, escaped>>

\* processApiEndpointWithPuppeteer returns for the fi-th URL
FUrl ==
    /\ fpc = "urls" /\ pending = 0
    /\ \E st \in {"success", "error", "skipped"} :
         /\ fproc' = Append(fproc, st)
         /\ IF fi < Len(fends)
            THEN /\ Emit(<< Update("processing_url", -1) >>
                         \o (IF fi % workflowBatchSize = 0
                             THEN << Update("processing_batch", 40 + ((fi * 30) \div Len(fends))) >>
                             ELSE <<>>)
                         \o << Update("processing_url", -1) >>)
                 /\ fi' = fi + 1
                 /\ UNCHANGED fpc
            ELSE /\ Emit(<< Update("processing_url", -1), Update("processing_complete", 70),
                            Update("linking_start", 80) >>)
                 /\ fpc' = "link"
                 /\ UNCHANGED fi
    /\ UNCHANGED <<fvariant, fsite, cb, fsubs, fetched, fends, escaped, fret, failed>>

\* linkPrerequisites returns, or throws as it can with two successful results
FLink ==
    /\ fpc = "link" /\ pending = 0
    /\ \E threw \in BOOLEAN :
         /\ threw => Cardinality({ n \in 1..Len(fproc) : fproc[n] = "success" }) >= 2
         /\ IF threw
            THEN Emit(<< Update("error", 100) >>) /\ fret' = "error"
            ELSE Emit(<< Update("linking_complete", 100) >>) /\ fret' = "success"
    /\ fpc' = "returned"
    /\ UNCHANGED <<fvariant, fsite, cb, fi, fsubs, fetched, fends, fproc, escaped, failed>>

\* the root page answers or the fetch fails, processRootUrl
FRootProcess ==
    /\ fpc = "root" /\ fvariant = "processRootUrl"
    /\ \E ok \in BOOLEAN :
         LET r == scrapeRootPage(0)
         IN  IF ~ok
             THEN /\ fret' = "error" /\ fpc' = "returned"
                  /\ failed' = failed \cup { 0 }
                  /\ UNCHANGED <<fi, fsubs, fends>>
             ELSE IF r.apiEndpointUrls = <<>> /\ r.subsectionUrls # <<>>
             THEN /\ fsubs' = r.subsectionUrls
                  /\ fpc' = "subs" /\ fi' = 1
                  /\ UNCHANGED <<fends, fret, failed>>
             ELSE /\ ToProcessing(r.apiEndpointUrls)
                  /\ fsubs' = r.subsectionUrls
                  /\ UNCHANGED <<fi, failed>>
    /\ UNCHANGED <<fvariant, fsite, cb, fetched, fproc, emitted, pending, escaped>>

\* the batch of subsection pages from the fi-th on is fetched with Promise.all,
\* processRootUrl
FSubBatchProcess ==
    /\ fpc = "subs" /\ fvariant = "processRootUrl"
    /\ \E bad \in SUBSET { fsubs[n] : n \in fi..Len(fsubs) } :
         LET last == IF fi + subsectionBatchSize - 1 < Len(fsubs)
                     THEN fi + subsectionBatchSize - 1 ELSE Len(fsubs)
             batch == SubSeq(fsubs, fi, last)
             found == fends \o Concat([n \in 1..Len(batch) |->
                                          scrapeRootPage(batch[n]).apiEndpointUrls])
         IN  /\ bad \subseteq Range(batch)
             /\ fetched' = fetched \o batch
             /\ failed' = failed \cup bad
             /\ IF bad # {}
                THEN /\ fret' = "error" /\ fpc' = "returned"
                     /\ UNCHANGED <<fi, fends>>
                ELSE IF last < Len(fsubs)
                THEN /\ fends' = found /\ fi' = last + 1
                     /\ UNCHANGED <<fpc, fret>>
                ELSE /\ ToProcessing(found)
                     /\ UNCHANGED fi
    /\ UNCHANGED <<fvariant, fsite, cb, fsubs, fproc, emitted, pending, escaped>>

\* a timer set by safeCallback fires and calls the callback with the oldest
\* waiting update; what the callback throws is outside safeCallback's try and
\* ends the process unless the host handles uncaught exceptions
Deliver ==
    /\ pending > 0 /\ fpc # "crashed"
    /\ pending' = pending - 1
    /\ IF cb = "throws"
       THEN /\ escaped' = TRUE
            /\ \E handled \in BOOLEAN : fpc' = IF handled THEN fpc ELSE "crashed"
       ELSE UNCHANGED <<escaped, fpc>>
    /\ UNCHANGED <<fvariant, fsite, cb, fi, fsubs, fetched, fends, fproc, emitted, fret, failed>>

InitFlow ==
    /\ LinkIdle /\ ParseIdle /\ PipeIdle /\ CallIdle /\ TextIdle /\ KeyIdle /\ StreamIdle
    /\ fvariant \in {"processRootUrl", "createPuppeteerWorkflow"}
    /\ fsite \in FlowSites
    /\ cb \in (IF fvariant = "processRootUrl" THEN {"none"} ELSE {"none", "returns", "throws"})
    /\ fpc = "start" /\ fi = 0 /\ fsubs = <<>> /\ fetched = <<>> /\ fends = <<>>
    /\ fproc = <<>> /\ emitted = <<>> /\ pending = 0 /\ escaped = FALSE /\ fret = "none"
    /\ failed = {}

NextFlow ==
    \/ FStart /\ UNCHANGED <<linkVars, parseVars, pipeVars, callVars, textVars, keyVars, streamVars>>
    \/ FRootWorkflow /\ UNCHANGED <<linkVars, parseVars, pipeVars, callVars, textVars, keyVars, streamVars>>
    \/ FSubWorkflow /\ UNCHANGED <<linkVars, parseVars, pipeVars, callVars, textVars, keyVars, streamVars>>
    \/ FUrl /\ UNCHANGED <<linkVars, parseVars, pipeVars, callVars, textVars, keyVars, streamVars>>
    \/ FLink /\ UNCHANGED <<linkVars, parseVars, pipeVars, callVars, textVars, keyVars, streamVars>>
    \/ FRootProcess /\ UNCHANGED <<linkVars, parseVars, pipeVars, callVars, textVars, keyVars, streamVars>>
    \/ FSubBatchProcess /\ UNCHANGED <<linkVars, parseVars, pipeVars, callVars, textVars, keyVars, streamVars>>
    \/ Deliver /\ UNCHANGED <<linkVars, parseVars, pipeVars, callVars, textVars, keyVars, streamVars>>

SpecFlow == InitFlow /\ [][NextFlow]_vars

\* C13: subsection links are extracted and fetched only when the root page has
\* no endpoint link, and no page behind a link of a subsection page is ever
\* fetched: every fetched page is the root or one of the root's own links
C13_OneHopDiscovery ==
    fpc # "off" =>
        /\ fsite.ends # <<>> =>
               /\ fsubs = <<>>
               /\ \A n \in 1..Len(fetched) : fetched[n] = 0
        /\ \A n \in 1..Len(fetched) : fetched[n] <= Len(fsite.subs)

\* discovery has ended after fetching a subsection page that has a same-domain
\* link of its own
C13_Witness ==
    /\ fpc = "returned" /\ fsite.ends = <<>>
    /\ \E n \in 1..Len(fetched) :
         /\ fetched[n] \in 1..Len(fsite.subs)
         /\ fsite.subs[fetched[n]].deep

\* the updates the progress callback has been called with
Delivered == IF cb = "none" THEN <<>> ELSE SubSeq(emitted, 1, Len(emitted) - pending)

\* C14: in a createPuppeteerWorkflow run every update the callback receives has
\* a progress value in 0..100 and no value is below the one before it
C14_ProgressMonotone ==
    fvariant = "createPuppeteerWorkflow" =>
        \A n \in 1..Len(Delivered) :
            /\ Delivered[n].progress \in 0..100
            /\ n > 1 => Delivered[n - 1].progress <= Delivered[n].progress

\* C15: a callback that throws on every update leaves the workflow running to
\* its return and its error never leaves safeCallback
C15_ThrowingCallbackContained ==
    (fvariant = "createPuppeteerWorkflow" /\ cb = "throws") =>
        /\ ~escaped
        /\ fpc # "crashed"

-----------------------------------------------------------------------------
(***************************************************************************)
(* Page texts and their classification                                     *)
(***************************************************************************)

MaxText == 3

\* A page text is a sequence of tokens separated by white space, given by
\* its lower-case form (every match below ignores case).  A word is written as
\* the pieces it is made of, so that <<"api">> is the word "api" and
\* <<"api", "s">> the word "apis".  A word token is one run of word characters;
\* a link token is a URL http://host/w1/w2... written as the words of its path;
\* a colon token is ":", a number token is "1." and a mark token is any other
\* punctuation.
Word(atoms) == [kind |-> "word", words |-> << atoms >>]

Link(words) == [kind |-> "url", words |-> words]

Colon == [kind |-> "colon", words |-> <<>>]

Number == [kind |-> "number", words |-> <<>>]

Mark == [kind |-> "mark", words |-> <<>>]

\* apiKeywords of stages/1-scraping.ts and 1-scraping-puppeteer.ts
apiKeywords ==
    { <<"api">>, <<"endpoint">>, <<"request">>, <<"response">>, <<"method">>,
      <<"parameter">>, <<"header">>, <<"status", "code">>, <<"authentication">>,
      <<"authorization">>, <<"get">>, <<"post">>, <<"put">>, <<"delete">>, <<"patch">>,
      <<"rest">>, <<"json">> }

\* apiKeywords of pages/api/process-urls.ts and process-manual-prerequisites.ts
pagesApiKeywords ==
    { <<"api">>, <<"endpoint">>, <<"request">>, <<"response">>, <<"parameter">>,
      <<"method">>, <<"get">>, <<"post">>, <<"put">>, <<"delete">>, <<"patch">>,
      <<"header">>, <<"status", "code">>, <<"authentication">>, <<"token">>, <<"json">>,
      <<"xml">>, <<"payload">>, <<"schema">> }

PagesMinKeywords == 4

\* the word w stands in the token between two word boundaries
IsWord(tok, w) == \E j \in 1..Len(tok.words) : tok.words[j] = << w >>

\* new RegExp(`\\b${keyword}\\b`, "i").test(text)
RegexTest(keyword, text) ==
    IF Len(keyword) = 1
    THEN \E i \in 1..Len(text) : IsWord(text[i], keyword[1])
    ELSE \E i \in 1..(Len(text) - 1) :
             /\ text[i].words # <<>>
             /\ text[i].words[Len(text[i].words)] = << keyword[1] >>
             /\ text[i + 1] = Word(<< keyword[2] >>)

\* text.toLowerCase().includes(keyword.toLowerCase())
Includes(keyword, text) ==
    IF Len(keyword) = 1
    THEN \E i \in 1..Len(text) : \E j \in 1..Len(text[i].words) :
             \E l \in 1..Len(text[i].words[j]) : text[i].words[j][l] = keyword[1]
    ELSE \E i \in 1..(Len(text) - 1) :
             /\ text[i].words # <<>> /\ text[i + 1].kind = "word"
             /\ LET w == text[i].words[Len(text[i].words)]
                IN  w[Len(w)] = keyword[1]
             /\ text[i + 1].words[1][1] = keyword[2]

\* keywordCount of stages/1-scraping.ts
CountKeywords(text) == Cardinality({ k \in apiKeywords : RegexTest(k, text) })

\* isApiDocumentation of pages/api/process-urls.ts and
\* process-manual-prerequisites.ts
pagesIsApiDocumentation(text) ==
    Cardinality({ k \in pagesApiKeywords : Includes(k, text) }) >= PagesMinKeywords

\* the callers that classify a page text
ClassifyPaths ==
    { "processApiEndpoint", "processApiEndpointWithPuppeteer", "process-urls",
      "process-manual-prerequisites" }

\* the isApiDocumentation in scope at the caller
Classifier(path, text) ==
    IF path \in { "processApiEndpoint", "processApiEndpointWithPuppeteer" }
    THEN isApiDocumentation(CountKeywords(text))
    ELSE pagesIsApiDocumentation(text)

ClassifyTokens ==
    { Word(<< "api" >>), Word(<< "endpoint" >>), Word(<< "request" >>), Word(<< "rest" >>),
      Word(<< "token" >>), Word(<< "json", "schema" >>), Word(<< "x" >>) }

InitClassify ==
    /\ LinkIdle /\ ParseIdle /\ PipeIdle /\ CallIdle /\ FlowIdle /\ KeyIdle /\ StreamIdle
    /\ tfun \in ClassifyPaths
    /\ txt \in SeqsUpTo(ClassifyTokens, MaxText)
    /\ suffix = <<>> /\ glued = FALSE
    /\ tout = FALSE /\ tjoined = FALSE /\ tpc = "call"

Classify ==
    /\ tpc = "call" /\ tfun \in ClassifyPaths
    /\ tout' = Classifier(tfun, txt)
    /\ tjoined' = Classifier(tfun, txt \o suffix)
    /\ tpc' = "done"
    /\ UNCHANGED <<tfun, txt, suffix, glued>>

NextClassify == Classify /\ UNCHANGED <<linkVars, parseVars, pipeVars, callVars, flowVars, keyVars, streamVars>>

SpecClassify == InitClassify /\ [][NextClassify]_vars

\* the number of distinct terms of the vocabulary that occur in the text as
\* whole words
DistinctTerms(text) == Cardinality({ k \in apiKeywords : RegexTest(k, text) })

\* C16: on every path that classifies a page the answer is true exactly for the
\* texts that hold at least 3 distinct vocabulary terms as whole words
C16_ThresholdThreeEveryPath ==
    (tpc = "done" /\ tfun \in ClassifyPaths) => (tout <=> DistinctTerms(txt) >= 3)

-----------------------------------------------------------------------------
(***************************************************************************)
(* detectMultipleApiEndpoints                                              *)
(***************************************************************************)

Methods == << "get", "post", "put", "delete", "patch" >>

\* the word w ends the token, before the white space that follows it
EndsWithWord(tok, w) == tok.words # <<>> /\ tok.words[Len(tok.words)] = w

\* the token starts with "/" or with a word character
StartsPath(tok) == tok.kind \in { "word", "url", "number" }

RECURSIVE CountMethod(_, _, _)
\* the number of matches of /\bM\s+[\/\w]+/gi from token i on: a match takes
\* the token after M whole, or the "http" of a URL
CountMethod(text, method, i) ==
    IF i >= Len(text) THEN 0
    ELSE IF EndsWithWord(text[i], << method >>) /\ StartsPath(text[i + 1])
    THEN 1 + CountMethod(text, method, IF text[i + 1].kind = "url" THEN i + 1 ELSE i + 2)
    ELSE CountMethod(text, method, i + 1)

\* the number of matches of /\bA\s+B\b/gi
CountPair(text, a, b) ==
    Cardinality({ i \in 1..(Len(text) - 1) :
                    EndsWithWord(text[i], a) /\ text[i + 1] = Word(b) })

\* the number of matches of /\bA\s*:/gi
CountColon(text, a) ==
    Cardinality({ i \in 1..(Len(text) - 1) :
                    EndsWithWord(text[i], a) /\ text[i + 1] = Colon })

endpointCount(text) ==
    CountMethod(text, "get", 1) + CountMethod(text, "post", 1)
    + CountMethod(text, "put", 1) + CountMethod(text, "delete", 1)
    + CountMethod(text, "patch", 1)
    + CountPair(text, << "api" >>, << "endpoint" >>)
    + CountColon(text, << "endpoint" >>)
    + CountColon(text, << "url" >>)
    + CountPair(text, << "request" >>, << "url" >>)
    + CountPair(text, << "http" >>, << "method" >>)

sectionIndicators ==
    { << << "endpoint", "s" >> >>,
      << << "api" >>, << "reference" >> >>,
      << << "available" >>, << "method", "s" >> >>,
      << << "resource" >>, << "type", "s" >> >>,
      << << "api" >>, << "resource", "s" >> >>,
      << << "list" >>, << "of" >>, << "api", "s" >> >>,
      << << "api" >>, << "listing" >> >> }

\* pattern.test(content) for a pattern of whole words
PhraseTest(phrase, text) ==
    \E i \in 1..(Len(text) - Len(phrase) + 1) :
        /\ IF Len(phrase) = 1
           THEN \E j \in 1..Len(text[i].words) : text[i].words[j] = phrase[1]
           ELSE EndsWithWord(text[i], phrase[1])
        /\ \A j \in 2..Len(phrase) : text[i + j - 1] = Word(phrase[j])

hasSectionIndicators(text) == \E phrase \in sectionIndicators : PhraseTest(phrase, text)

\* content.match(/\bM\b/gi)?.length || 0
Occurrences(text, method) ==
    Cardinality(UNION { { << i, j >> : j \in { k \in 1..Len(text[i].words) :
                                                text[i].words[k] = << method >> } } :
                        i \in 1..Len(text) })

methodsWithMultipleOccurrences(text) ==
    Cardinality({ n \in 1..Len(Methods) : Occurrences(text, Methods[n]) > 1 })

\* the URLs of the text that hold '/api/', '/v1/', '/v2/' or '/rest/'
apiUrlPatterns(text) ==
    { i \in 1..Len(text) :
        /\ text[i].kind = "url"
        /\ \E j \in 1..(Len(text[i].words) - 1) :
             text[i].words[j] \in { << "api" >>, << "v1" >>, << "v2" >>, << "rest" >> } }

\* the pieces of one letter
OneLetter == { "x", "s" }

\* a match of /\b\d+\.\s+[A-Z][a-zA-Z\s]+API\b/gi: a number, then letters and
\* white space, at least two characters, then "api" at the end of a word
numberedSections(text) ==
    \E i \in 1..Len(text) : \E k \in (i + 1)..Len(text) :
        /\ text[i] = Number
        /\ \A n \in (i + 1)..k : text[n].kind = "word"
        /\ LET w == text[k].words[1]
           IN  /\ w[Len(w)] = "api"
               /\ \/ k > i + 1
                  \/ Len(w) >= 3
                  \/ Len(w) = 2 /\ w[1] \notin OneLetter

detectMultipleApiEndpoints(text) ==
    \/ endpointCount(text) > 1
    \/ hasSectionIndicators(text)
    \/ methodsWithMultipleOccurrences(text) >= 2
    \/ Cardinality(apiUrlPatterns(text)) > 1
    \/ numberedSections(text)

\* t followed by u with no white space between them: the last word of t and the
\* first word of u become one word
Glue(t, u) ==
    LET a == t[Len(t)]
        b == u[1]
        front == SubSeq(t, 1, Len(t) - 1)
        rest == SubSeq(u, 2, Len(u))
        lastw == a.words[Len(a.words)]
        init == SubSeq(a.words, 1, Len(a.words) - 1)
    IN  IF a.words = <<>> \/ b.kind \in { "colon", "mark" }
        THEN front \o << a >> \o (IF b.kind = "number" /\ a.kind = "number"
                                  THEN << Mark >> ELSE << b >>) \o rest
        ELSE IF b.kind = "word"
        THEN front \o << [a EXCEPT !.words = init \o << lastw \o b.words[1] >>] >> \o rest
        ELSE IF b.kind = "number"
        THEN front \o << [a EXCEPT !.words = init \o << lastw \o << "1" >> >>], Mark >> \o rest
        ELSE IF a.kind = "url"
        THEN front \o << Link(init \o << lastw \o << "http" >> >> \o b.words) >> \o rest
        ELSE front \o << Word(lastw \o << "http" >>), b >> \o rest

\* content T followed by U
Join(t, u, g) == IF g /\ t # <<>> /\ u # <<>> THEN Glue(t, u) ELSE t \o u

DetectTokens ==
    { Word(<< "get" >>), Word(<< "post" >>), Word(<< "endpoint", "s" >>), Word(<< "api" >>),
      Word(<< "x" >>), Link(<< << "api" >>, << "x" >> >>), Number }

Suffixes ==
    { <<>>, << Word(<< "x" >>) >>, << Word(<< "get" >>) >>, << Link(<< << "api" >>, << "x" >> >>) >> }

InitDetect ==
    /\ LinkIdle /\ ParseIdle /\ PipeIdle /\ CallIdle /\ FlowIdle /\ KeyIdle /\ StreamIdle
    /\ tfun = "detectMultipleApiEndpoints"
    /\ txt \in SeqsUpTo(DetectTokens, MaxText)
    /\ suffix \in Suffixes /\ glued \in BOOLEAN
    /\ tout = FALSE /\ tjoined = FALSE /\ tpc = "call"

Detect ==
    /\ tpc = "call" /\ tfun = "detectMultipleApiEndpoints"
    /\ tout' = detectMultipleApiEndpoints(txt)
    /\ tjoined' = detectMultipleApiEndpoints(Join(txt, suffix, glued))
    /\ tpc' = "done"
    /\ UNCHANGED <<tfun, txt, suffix, glued>>

NextDetect == Detect /\ UNCHANGED <<linkVars, parseVars, pipeVars, callVars, flowVars, keyVars, streamVars>>

SpecDetect == InitDetect /\ [][NextDetect]_vars

\* C17: a text that detectMultipleApiEndpoints answers true for is answered
\* true for with any text appended, also when the appended text starts with word
\* characters that join onto the last word
C17_MonotoneUnderConcatenation ==
    (tpc = "done" /\ tfun = "detectMultipleApiEndpoints" /\ tout) => tjoined

-----------------------------------------------------------------------------
(***************************************************************************)
(* The linkers with a credential                                           *)
(***************************************************************************)

\* what linking gives when every lookup is done by heuristic scoring
HeuristicAlone(which, as) ==
    IF which = "util" THEN utilLinkActionPrerequisites("nokey", as).actions
    ELSE stage3LinkActionPrerequisites("nokey", as).actions

\* C19: with a credential, when the model answers actionId null or its answer
\* does not parse, each prerequisite is resolved as heuristic scoring resolves it
C19_NullAnswerFallsBack ==
    (s3pc = "done" /\ sai \in {"null", "heuristic"}) =>
        sout.actions = HeuristicAlone(entry, shand)

\* C20: after linking, on either path and with or without a credential, no
\* prerequisite whose text is shorter than 10 characters is a reference
C20_ShortNeverResolved ==
    s3pc = "done" =>
        \A i \in 1..Len(sout.actions) : \A k \in 1..Len(sout.actions[i].prerequisites) :
            LET v == sout.actions[i].prerequisites[k].val
            IN  v.ref => StrLength(v.text) >= MinPrereqLength

-----------------------------------------------------------------------------
(***************************************************************************)
(* The browser client, its key and the /api/ routes                        *)
(***************************************************************************)

MaxInFlight == 2

\* the keys a user may enter; "" is an empty field
Keys == { "key1", "key2" }

\* a request of the client: the route, whether it has an Authorization header
\* and the key after "Bearer ", the keys of its JSON body
Request(route, auth, bearer, bodyKey) ==
    [route |-> route, auth |-> auth, bearer |-> bearer, bodyKey |-> bodyKey]

Send(req) ==
    /\ Cardinality(wire) < MaxInFlight
    /\ wire' = wire \cup { req }

\* handleApiKeyChange: the field and localStorage take the new key
handleApiKeyChange ==
    /\ \E k \in Keys : apiKey' = k
    /\ UNCHANGED <<additionalApiKey, wire, serverKeys>>

handleClearApiKey ==
    /\ apiKey' = ""
    /\ UNCHANGED <<additionalApiKey, wire, serverKeys>>

handleAdditionalApiKeyChange ==
    /\ \E k \in Keys \cup { "" } : additionalApiKey' = k
    /\ UNCHANGED <<apiKey, wire, serverKeys>>

handleSubmitMultipleUrls ==
    /\ apiKey # ""
    /\ Send(Request("/api/process-urls", TRUE, apiKey, ""))
    /\ UNCHANGED <<apiKey, additionalApiKey, serverKeys>>

handleProcessManualPrerequisites ==
    /\ Send(Request("/api/process-manual-prerequisites", TRUE, apiKey, ""))
    /\ UNCHANGED <<apiKey, additionalApiKey, serverKeys>>

handleSubmitRootUrl ==
    /\ apiKey # ""
    /\ Send(Request("/api/process-root-url", TRUE, apiKey, additionalApiKey))
    /\ UNCHANGED <<apiKey, additionalApiKey, serverKeys>>

\* handleSubmit of PuppeteerWorkflowStreamForm, whose key field holds k
streamHandleSubmit ==
    /\ \E k \in Keys \cup { "" } :
         Send(Request("/api/process-with-puppeteer-stream", FALSE, "", k))
    /\ UNCHANGED <<apiKey, additionalApiKey, serverKeys>>

\* handleSubmit of pages/index.tsx
indexHandleSubmit ==
    /\ Send(Request("/api/process-urls", FALSE, "", ""))
    /\ UNCHANGED <<apiKey, additionalApiKey, serverKeys>>

\* the keys the handler of the route reads from the request
KeysRead(req) ==
    IF req.route = "/api/process-with-puppeteer-stream" THEN { req.bodyKey } \ { "" }
    ELSE IF ~req.auth THEN {}
    ELSE IF req.route = "/api/process-root-url" THEN { req.bearer, req.bodyKey } \ { "" }
    ELSE { req.bearer } \ { "" }

\* the server handles a request
handler ==
    /\ \E req \in wire :
         /\ wire' = wire \ { req }
         /\ serverKeys' = serverKeys \cup KeysRead(req)
    /\ UNCHANGED <<apiKey, additionalApiKey>>

InitKey ==
    /\ LinkIdle /\ ParseIdle /\ PipeIdle /\ CallIdle /\ FlowIdle /\ TextIdle /\ StreamIdle
    /\ apiKey = "" /\ additionalApiKey = "" /\ wire = {} /\ serverKeys = {}

NextKey ==
    \/ handleApiKeyChange /\ UNCHANGED <<linkVars, parseVars, pipeVars, callVars, flowVars, textVars, streamVars>>
    \/ handleClearApiKey /\ UNCHANGED <<linkVars, parseVars, pipeVars, callVars, flowVars, textVars, streamVars>>
    \/ handleAdditionalApiKeyChange /\ UNCHANGED <<linkVars, parseVars, pipeVars, callVars, flowVars, textVars, streamVars>>
    \/ handleSubmitMultipleUrls /\ UNCHANGED <<linkVars, parseVars, pipeVars, callVars, flowVars, textVars, streamVars>>
    \/ handleProcessManualPrerequisites /\ UNCHANGED <<linkVars, parseVars, pipeVars, callVars, flowVars, textVars, streamVars>>
    \/ handleSubmitRootUrl /\ UNCHANGED <<linkVars, parseVars, pipeVars, callVars, flowVars, textVars, streamVars>>
    \/ streamHandleSubmit /\ UNCHANGED <<linkVars, parseVars, pipeVars, callVars, flowVars, textVars, streamVars>>
    \/ indexHandleSubmit /\ UNCHANGED <<linkVars, parseVars, pipeVars, callVars, flowVars, textVars, streamVars>>
    \/ handler /\ UNCHANGED <<linkVars, parseVars, pipeVars, callVars, flowVars, textVars, streamVars>>

SpecKey == InitKey /\ [][NextKey]_vars

\* C18: no request of the client to an /api/ route carries the user's key and
\* no handler of the server reads it from a request
C18_KeyNeverSentToServer ==
    /\ \A req \in wire : req.bearer = "" /\ req.bodyKey = ""
    /\ serverKeys = {}

-----------------------------------------------------------------------------
(***************************************************************************)
(* Discovery: failed subsection pages, duplicates, the number of pages     *)
(***************************************************************************)

\* the subsection pages that were fetched and answered
Answered == { fetched[n] : n \in 1..Len(fetched) } \ (failed \cup { 0 })

\* C21: when the fetch of a subsection page fails, the endpoint links of the
\* subsection pages that answered still go to stage 2 and are processed, and the
\* run does not return the top-level error with no results
C21_SubsectionFailureIsolated ==
    (fpc = "returned" /\ failed # {} /\ 0 \notin failed
       /\ \E p \in Answered : scrapeRootPage(p).apiEndpointUrls # <<>>) =>
        /\ \A p \in Answered : Range(scrapeRootPage(p).apiEndpointUrls) \subseteq Range(fends)
        /\ fvariant = "processRootUrl" => fret = "stage2"
        /\ fvariant = "createPuppeteerWorkflow" => Len(fproc) = Len(fends)

\* C22: the endpoint URLs handed to stage 2 hold no URL twice
C22_NoDuplicateEndpoint ==
    (fpc \in { "urls", "link", "returned" }) =>
        \A i, j \in 1..Len(fends) : fends[i] = fends[j] => i = j

\* C23: at most 5 subsection pages are fetched in a run
C23_AtMostFiveSubsections ==
    Cardinality({ n \in 1..Len(fetched) : fetched[n] # 0 }) <= 5

-----------------------------------------------------------------------------
(***************************************************************************)
(* Array responses with incomplete elements                                *)
(***************************************************************************)

\* the positions of the response's elements that are complete and unmarked
ValidIdx(es) == SelectIdx(es, [i \in 1..Len(es) |-> Survives(es[i])], 1)

\* C24: an array response that parses and holds a valid element comes back as
\* the list of its valid elements; an element with a missing field is dropped
\* and does not make the parsing fail
C24_MissingFieldDropsElementOnly ==
    (/\ ppc = "done" /\ presp.mode = "array" /\ presp.syntax # "broken"
     /\ ValidIdx(presp.elems) # <<>>)
    => /\ pout.kind = "array"
       /\ Len(pout.actions) = Len(ValidIdx(presp.elems))
       /\ \A j \in 1..Len(pout.actions) :
             SameButId(pout.actions[j], presp.elems[ValidIdx(presp.elems)[j]])

-----------------------------------------------------------------------------
(***************************************************************************)
(* Progress of the pipeline                                                *)
(***************************************************************************)

\* The steps the program takes by itself are taken sooner or later; the model
\* client answers or fails within the time limit of its library.  The answer to
\* axios.get(url) is the remote server's step: scrapeData sets no timeout and
\* no timer, so nothing obliges FetchDone to happen.
SpecPipeLive ==
    /\ InitPipe /\ [][NextPipe]_vars
    /\ WF_pipeVars(Stage1) /\ WF_pipeVars(DispatchBatch)
    /\ \A n \in 1..NumUrls : WF_pipeVars(ModelDone(n))
    /\ WF_pipeVars(JoinBatch) /\ WF_pipeVars(Stage2Done) /\ WF_pipeVars(Stage3)

\* C25: once the fetch of an endpoint page is under way the pipeline returns
\* its payload, whether or not the page ever answers
C25_HungFetchBounded ==
    (\E n \in 1..NumUrls : ust[n] = "fetching") ~> (rpc = "returned")

-----------------------------------------------------------------------------
(***************************************************************************)
(* References after linking                                                *)
(***************************************************************************)

\* C26: after linking, with or without a credential and whatever id the model
\* answers, every reference names an Action of the linked collection other than
\* the Action that owns the prerequisite
C26_ReferencesNameOtherActions ==
    s3pc = "done" =>
        \A i \in 1..Len(sout.actions) : \A k \in 1..Len(sout.actions[i].prerequisites) :
            LET v == sout.actions[i].prerequisites[k].val
            IN  v.ref =>
                  /\ v.id # sout.actions[i].id
                  /\ \E j \in 1..Len(sout.actions) : sout.actions[j].id = v.id

\* C26 witness: the model answered the owner's own id or an id no Action has,
\* and the linked collection holds a reference
C26_Witness ==
    /\ s3pc = "done" /\ sai \in {"self", "unknown"}
    /\ HasReference(sout.actions)

-----------------------------------------------------------------------------
(***************************************************************************)
(* The streaming endpoint: one URL, its tasks and its SSE subscribers      *)
(***************************************************************************)

\* POSTs accepted and GET connections opened in a run
MaxTasks == 2
MaxStreams == 1

\* a progress update or an SSE data event.  data: "none", "processed" (the
\* stage-2 results and counts), "linked", "result" (what the workflow
\* returned) or "null" (the initial task.result)
SUpdate(type, data) == [type |-> type, data |-> data]

\* update.type === 'processing_complete' || update.type === 'error'
IsTerminal(u) == u.type \in {"processing_complete", "error"}

\* the sendUpdate of a new task, applied to the task object tk
OriginalSendUpdate(tk, u) ==
    [tk EXCEPT !.updates = Append(@, u),
               !.completed = @ \/ IsTerminal(u),
               !.result = IF u.type = "processing_complete" THEN u.data ELSE @,
               !.error = IF u.type = "error" THEN TRUE ELSE @]

\* sendSSEData on a response unless res.writableEnded; a terminal update ends it
SendToClient(st, u) ==
    IF st.ended THEN st
    ELSE [st EXCEPT !.written = Append(@, u), !.ended = IsTerminal(u)]

RECURSIVE TaskAfter(_, _)
\* the task object after the original function stored the updates ups
TaskAfter(tk, ups) ==
    IF ups = <<>> THEN tk ELSE TaskAfter(OriginalSendUpdate(tk, Head(ups)), Tail(ups))

RECURSIVE ClientAfter(_, _)
\* a response after an override was called with the updates ups
ClientAfter(st, ups) ==
    IF ups = <<>> THEN st ELSE ClientAfter(SendToClient(st, Head(ups)), Tail(ups))

\* A sendUpdate function value is the sequence f of the responses whose
\* overrides wrap the task's original function, innermost first.  Calling it
\* for task t stores the update and writes it to every response of f
CallTask(f, t, ups) == [task EXCEPT ![t] = TaskAfter(@, ups)]

CallStreams(f, ups) ==
    [s \in 1..Len(stream) |-> IF s \in Range(f) THEN ClientAfter(stream[s], ups)
                              ELSE stream[s]]

\* POST: 409 while the URL's entry is not completed; else a new task replaces
\* the entry, records the initial update and schedules its workflow run
Post ==
    IF active # 0 /\ ~task[active].completed
    THEN /\ posted' = 409
         /\ UNCHANGED <<active, task, wf, timers, cleanup, stream>>
    ELSE /\ Len(task) < MaxTasks
         /\ task' = Append(task, OriginalSendUpdate(
                        [updates |-> <<>>, completed |-> FALSE, result |-> "null",
                         error |-> FALSE, sendUpdate |-> <<>>],
                        SUpdate("scraping_start", "none")))
         /\ active' = Len(task) + 1
         /\ wf' = Append(wf, [pc |-> "scheduled", cb |-> <<>>])
         /\ posted' = 200
         /\ UNCHANGED <<timers, cleanup, stream>>

\* GET: without an entry an error event and the end; else the welcome event and
\* the stored updates, then the final event and the end when the task is
\* completed, or the override of task.sendUpdate
Get ==
    /\ Len(stream) < MaxStreams
    /\ IF active = 0
       THEN /\ stream' = Append(stream,
                   [task |-> 0, from |-> 0, orig |-> <<>>, closed |-> FALSE, live |-> FALSE,
                    written |-> << SUpdate("error", "none") >>, ended |-> TRUE])
            /\ UNCHANGED task
       ELSE LET tk == task[active]
                caught == << SUpdate("info", "none") >> \o tk.updates
            IN  IF tk.completed
                THEN /\ stream' = Append(stream,
                            [task |-> active, from |-> Len(tk.updates), orig |-> <<>>,
                             closed |-> FALSE, live |-> FALSE, ended |-> TRUE,
                             written |-> Append(caught,
                                 IF tk.error THEN SUpdate("error", "none")
                                 ELSE SUpdate("processing_complete", tk.result))])
                     /\ UNCHANGED task
                ELSE /\ stream' = Append(stream,
                            [task |-> active, from |-> Len(tk.updates), orig |-> tk.sendUpdate,
                             closed |-> FALSE, live |-> TRUE, ended |-> FALSE,
                             written |-> caught])
                     /\ task' = [task EXCEPT ![active].sendUpdate = Append(@, Len(stream) + 1)]
    /\ UNCHANGED <<active, wf, timers, cleanup, posted>>

\* req.on('close'): the client of response s disconnects
Close(s) ==
    /\ s \in 1..Len(stream) /\ ~stream[s].closed
    /\ stream' = [stream EXCEPT ![s].closed = TRUE, ![s].ended = TRUE]
    /\ IF stream[s].live /\ ~task[stream[s].task].completed
       THEN task' = [task EXCEPT ![stream[s].task].sendUpdate = stream[s].orig]
       ELSE UNCHANGED task
    /\ UNCHANGED <<active, wf, timers, cleanup, posted>>

\* safeCallback for each update of ups, called without an await in between:
\* their setTimeout(0) callbacks run in one timers phase
Schedule(t, ups) ==
    timers' = IF ups = <<>> THEN timers ELSE Append(timers, [task |-> t, updates |-> ups])

\* no timer of task t is waiting: an await of the workflow resumes after them
Quiet(t) == \A n \in 1..Len(timers) : timers[n].task # t

\* the setImmediate callback: createPuppeteerWorkflow is called with the value
\* task.sendUpdate has now
WorkflowStart(t) ==
    /\ t \in 1..Len(wf) /\ wf[t].pc = "scheduled"
    /\ wf' = [wf EXCEPT ![t] = [pc |-> "stage1", cb |-> task[t].sendUpdate]]
    /\ Schedule(t, << SUpdate("scraping_start", "none") >>)
    /\ UNCHANGED <<active, task, cleanup, stream, posted>>

\* lines 261-276 after the workflow returned: the final update through
\* task.sendUpdate unless the task is completed, then the cleanup timer
Returned(t) ==
    /\ IF task[t].completed THEN UNCHANGED <<task, stream>>
       ELSE /\ task' = CallTask(task[t].sendUpdate, t,
                                 << SUpdate("processing_complete", "result") >>)
            /\ stream' = CallStreams(task[t].sendUpdate,
                                     << SUpdate("processing_complete", "result") >>)
    /\ cleanup' = cleanup \cup { t }

\* the updates before the first URL of stage 2
ToFirstUrl ==
    << SUpdate("processing_start", "none"), SUpdate("processing_batch", "none"),
       SUpdate("processing_url", "none") >>

\* stage 1 of the workflow: the root scrape throws, finds neither endpoints nor
\* subsections, finds endpoints, or finds subsections only
Stage1Outcomes == {"throws", "empty", "found", "subsections"}

WorkflowStage1(t) ==
    /\ t \in 1..Len(wf) /\ wf[t].pc = "stage1" /\ Quiet(t)
    /\ \E o \in Stage1Outcomes :
         LET ups == IF o = "throws" THEN << SUpdate("error", "none") >>
                    ELSE IF o = "empty"
                    THEN << SUpdate("scraping_complete", "none"), SUpdate("error", "none") >>
                    ELSE IF o = "found"
                    THEN << SUpdate("scraping_complete", "none") >> \o ToFirstUrl
                    ELSE << SUpdate("scraping_complete", "none"),
                            SUpdate("processing_start", "none"),
                            SUpdate("processing_url", "none") >>
         IN  /\ Schedule(t, ups)
             /\ IF o \in {"throws", "empty"}
                THEN /\ wf' = [wf EXCEPT ![t].pc = "returned"]
                     /\ Returned(t)
                ELSE /\ wf' = [wf EXCEPT ![t].pc = IF o = "found" THEN "stage2"
                                                  ELSE "subsection"]
                     /\ UNCHANGED <<task, stream, cleanup>>
    /\ UNCHANGED <<active, posted>>

\* the scrape of the last subsection page returns or fails; the subsections
\* gave endpoints or none
WorkflowSubsection(t) ==
    /\ t \in 1..Len(wf) /\ wf[t].pc = "subsection" /\ Quiet(t)
    /\ \E ok \in BOOLEAN, found \in BOOLEAN :
         /\ Schedule(t, (IF ok THEN <<>> ELSE << SUpdate("error", "none") >>)
                            \o (IF found THEN ToFirstUrl ELSE << SUpdate("error", "none") >>))
         /\ IF found
            THEN /\ wf' = [wf EXCEPT ![t].pc = "stage2"]
                 /\ UNCHANGED <<task, stream, cleanup>>
            ELSE /\ wf' = [wf EXCEPT ![t].pc = "returned"]
                 /\ Returned(t)
    /\ UNCHANGED <<active, posted>>

\* stage 2: the URL is processed or fails, then the 70% update
WorkflowStage2(t) ==
    /\ t \in 1..Len(wf) /\ wf[t].pc = "stage2" /\ Quiet(t)
    /\ \E ok \in BOOLEAN :
         Schedule(t, << IF ok THEN SUpdate("processing_url", "none")
                        ELSE SUpdate("error", "none"),
                        SUpdate("processing_complete", "processed") >>)
    /\ wf' = [wf EXCEPT ![t].pc = "stage3"]
    /\ UNCHANGED <<active, task, cleanup, stream, posted>>

\* stage 3 starts
WorkflowStage3(t) ==
    /\ t \in 1..Len(wf) /\ wf[t].pc = "stage3" /\ Quiet(t)
    /\ Schedule(t, << SUpdate("linking_start", "none") >>)
    /\ wf' = [wf EXCEPT ![t].pc = "linking"]
    /\ UNCHANGED <<active, task, cleanup, stream, posted>>

\* linkPrerequisites returns or throws; the workflow returns
WorkflowLinked(t) ==
    /\ t \in 1..Len(wf) /\ wf[t].pc = "linking" /\ Quiet(t)
    /\ \E ok \in BOOLEAN :
         Schedule(t, << IF ok THEN SUpdate("linking_complete", "linked")
                        ELSE SUpdate("error", "none") >>)
    /\ wf' = [wf EXCEPT ![t].pc = "returned"]
    /\ Returned(t)
    /\ UNCHANGED <<active, posted>>

\* the timers phase runs the oldest setTimeout(0) callbacks of safeCallback:
\* progressCallback(update) for each
DeliverUpdate ==
    /\ timers # <<>>
    /\ LET t == Head(timers).task
           ups == Head(timers).updates
       IN  /\ task' = CallTask(wf[t].cb, t, ups)
           /\ stream' = CallStreams(wf[t].cb, ups)
    /\ timers' = Tail(timers)
    /\ UNCHANGED <<active, wf, cleanup, posted>>

\* the cleanup timer of task t fires: activeTasks.delete(url)
Cleanup(t) ==
    /\ t \in cleanup
    /\ cleanup' = cleanup \ { t }
    /\ active' = 0
    /\ UNCHANGED <<task, wf, timers, stream, posted>>

InitStream ==
    /\ LinkIdle /\ ParseIdle /\ PipeIdle /\ CallIdle /\ FlowIdle /\ TextIdle /\ KeyIdle
    /\ StreamIdle

NextStream ==
    \/ Post /\ UNCHANGED <<linkVars, parseVars, pipeVars, callVars, flowVars, textVars, keyVars>>
    \/ Get /\ UNCHANGED <<linkVars, parseVars, pipeVars, callVars, flowVars, textVars, keyVars>>
    \/ (\E s \in 1..MaxStreams : Close(s)) /\ UNCHANGED <<linkVars, parseVars, pipeVars, callVars, flowVars, textVars, keyVars>>
    \/ (\E t \in 1..MaxTasks : WorkflowStart(t)) /\ UNCHANGED <<linkVars, parseVars, pipeVars, callVars, flowVars, textVars, keyVars>>
    \/ (\E t \in 1..MaxTasks : WorkflowStage1(t)) /\ UNCHANGED <<linkVars, parseVars, pipeVars, callVars, flowVars, textVars, keyVars>>
    \/ (\E t \in 1..MaxTasks : WorkflowSubsection(t)) /\ UNCHANGED <<linkVars, parseVars, pipeVars, callVars, flowVars, textVars, keyVars>>
    \/ (\E t \in 1..MaxTasks : WorkflowStage2(t)) /\ UNCHANGED <<linkVars, parseVars, pipeVars, callVars, flowVars, textVars, keyVars>>
    \/ (\E t \in 1..MaxTasks : WorkflowStage3(t)) /\ UNCHANGED <<linkVars, parseVars, pipeVars, callVars, flowVars, textVars, keyVars>>
    \/ (\E t \in 1..MaxTasks : WorkflowLinked(t)) /\ UNCHANGED <<linkVars, parseVars, pipeVars, callVars, flowVars, textVars, keyVars>>
    \/ DeliverUpdate /\ UNCHANGED <<linkVars, parseVars, pipeVars, callVars, flowVars, textVars, keyVars>>
    \/ (\E t \in 1..MaxTasks : Cleanup(t)) /\ UNCHANGED <<linkVars, parseVars, pipeVars, callVars, flowVars, textVars, keyVars>>

SpecStream == InitStream /\ [][NextStream]_vars

\* the workflow of task t is between its first and its last statement
Executing(t) == wf[t].pc \in {"stage1", "subsection", "stage2", "stage3", "linking"}

\* C28 (as stated): at most one workflow of the URL is executing at any time
C28_OneWorkflowPerUrl ==
    Cardinality({ t \in 1..Len(wf) : Executing(t) }) <= 1

\* C29 (as stated): the result stored on a completed task, and the data of
\* every 'processing_complete' event that ends a subscriber's stream, is the
\* value createPuppeteerWorkflow returned
C29_StoredResultIsReturnValue ==
    /\ \A t \in 1..Len(task) :
           (task[t].completed /\ task[t].result # "null") =>
               (wf[t].pc = "returned" /\ task[t].result = "result")
    /\ \A s \in 1..Len(stream) :
           (stream[s].ended /\ stream[s].written # <<>>
                /\ stream[s].written[Len(stream[s].written)].type = "processing_complete") =>
               stream[s].written[Len(stream[s].written)].data = "result"

RECURSIVE ThroughTerminal(_)
\* the updates of us up to and including the first terminal one
ThroughTerminal(us) ==
    IF us = <<>> THEN <<>>
    ELSE IF IsTerminal(Head(us)) THEN << Head(us) >>
    ELSE << Head(us) >> \o ThroughTerminal(Tail(us))

\* C30 (as stated): a subscriber that connected to a running task and has not
\* disconnected has been written, in order, every update recorded since it
\* connected, up to and including the terminal one
C30_SubscriberGetsEveryUpdate ==
    \A s \in 1..Len(stream) :
        (stream[s].live /\ ~stream[s].closed) =>
            LET us == task[stream[s].task].updates
            IN  SubSeq(stream[s].written, stream[s].from + 2, Len(stream[s].written))
                    = ThroughTerminal(SubSeq(us, stream[s].from + 1, Len(us)))

=============================================================================
